------------------------------ MODULE MCRequests ------------------------------
(* A small instance of the relay's front door for TLC.                     *)
EXTENDS Requests

CONSTANT ip1

OneAddress  == {ip1}
ThreeKinds  == {"create", "ring", "join"}
TwoKinds    == {"create", "ring"}

MCPages == {CHAT, Word(5, 0, TRUE, TRUE, FALSE, TRUE)}

MCIds == {Generated(TRUE), Generated(FALSE)}

\* "Alice", the longest name, all of it hex digits, a name of as many hex
\* digits as the shortest id, and a longer name that begins with them.
MCNames == {
    Word(5, 1, TRUE, TRUE, TRUE, FALSE), Word(31, 31, TRUE, TRUE, FALSE, FALSE),
    Word(16, 16, TRUE, TRUE, FALSE, FALSE), Word(20, 16, TRUE, TRUE, FALSE, FALSE)}

\* The empty text, and texts at the limit of 4,000 characters and beyond.
MCTexts == {
    Text(0, 0, 0, 0, 0, 0), Text(4001, 0, 0, 0, 0, 0), Text(0, 4000, 0, 0, 0, 0),
    Text(0, 0, 0, 4000, 0, 0), Text(0, 0, 0, 0, 2000, 0), Text(0, 0, 0, 0, 0, 801),
    Text(0, 1000, 0, 3000, 0, 0), Text(0, 0, 4000, 0, 0, 0)}

MCOtherFrames == {
    SEND_MESSAGE(Message(36, 70000)), [Frame(NoType) EXCEPT !.json = FALSE], Frame(NoType),
    Frame("OTHER"), [Frame("CREATE_SESSION") EXCEPT !.payload = "absent"],
    [Frame("CREATE_SESSION") EXCEPT !.payload = "scalar"],
    CREATE_SESSION(Word(15, 15, TRUE, TRUE, FALSE, FALSE)),
    JOIN_SESSION(NoWord), SEND_MESSAGE(NoMessage),
    [LEAVE_SESSION(NoWord) EXCEPT !.payload = "scalar"],
    CLAIM_HANDLE(Word(5, 1, TRUE, TRUE, FALSE, FALSE), Proof(0, 88)), RING_HANDLE(CHAT)}
===============================================================================
