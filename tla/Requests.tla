------------------------------ MODULE Requests ------------------------------
(***************************************************************************)
(* A request on its way in: a user opens a link, writes a message or takes *)
(* a name in one of the apps, the app sends a frame, and the relay's       *)
(* handleMessage (handlers/messages.ts) parses it and asks the rate limits *)
(* before any handler runs.  Links says where a link leads, Frames what    *)
(* is sent and read, RateLimits what the buckets do.                       *)
(***************************************************************************)
EXTENDS RateLimits, Frames

CONSTANTS
    Ids,            \* session ids the apps and the relay make
    Names,          \* lasting names, as their owners write them
    Pages,          \* reserved paths
    Texts,          \* what a user may write
    OtherFrames     \* frames no app of this repository sends

ASSUME RequestAssumption ==
    /\ Ids \subseteq {Generated(TRUE), Generated(FALSE)}
    /\ Names \cup Pages \subseteq Words /\ Texts \subseteq Writings
    /\ \A name \in Names : IsHandleSlug(name)
    /\ \A page \in Pages : IsReservedPath(page) /\ ~IsSessionId(page)

VARIABLES
    told,           \* history: the errors an app was told about its own frames
    misled          \* history: the links that led somewhere else

doorVars == <<told, misled>>
allVars  == <<vars, doorVars>>

DoorInit == Init /\ told = {} /\ misled = {}

----------------------------------------------------------------------------
(* handleMessage.                                                          *)

Kind(type) ==
    CASE type = "CREATE_SESSION" -> "create"
      [] type = "JOIN_SESSION"   -> "join"
      [] type = "SEND_MESSAGE"   -> "send"
      [] type = "CLAIM_HANDLE"   -> "claim"
      [] type = "RING_HANDLE"    -> "ring"
      [] OTHER                   -> "unmetered"

\* sendToSocket of an ERROR.
Refuses(by, code) == told' = IF by = "app" THEN told \cup {code} ELSE told

\* The verdict of the limits of a kind this instance does not follow is a choice.
Within(ip, kind)  == AllowAction(ip, kind) /\ (kind \in Creating => CanCreateSessionFromIP(ip))
Limited(ip, kind) == kind # "unmetered" /\ (kind \in Metered => ~Within(ip, kind))
Handled(ip, kind) == kind \in Metered => Within(ip, kind)

HandleMessage(ip, frame, by) ==
    LET read == ParseClientMessage(frame)
        kind == Kind(read.type)
    IN
    \/ /\ ~read.ok /\ Refuses(by, read.code)
       /\ UNCHANGED vars
    \/ /\ read.ok
       /\ \/ Limited(ip, kind) /\ Refuses(by, "RATE_LIMITED")
          \/ Handled(ip, kind) /\ UNCHANGED told
       /\ IF kind \in Metered THEN Request(ip, kind) ELSE UNCHANGED vars

----------------------------------------------------------------------------
(* The apps.                                                               *)

\* Every link the apps show, at every reader it can reach: the place it was
\* made for and the place it leads to.
Visit(home, links) ==
    {[home |-> home, place |-> Leads(at[1], at[2])] :
        at \in {way \in Readers \X links : MayRead(way[1], way[2])}}

ChatVisits == UNION {Visit(Chat(id), ChatLinks(id)) : id \in Ids}
PageVisits == UNION {Visit(Nowhere, PageLinks(page)) : page \in Pages}
NameVisits == UNION {Visit(Name(NormalizeHandle(name)), NameLinks(name)) : name \in Names}

\* The chat page joins, the page of a name rings, any other sends nothing.
Opens(ip, visit) ==
    /\ misled' = IF visit.place = visit.home THEN misled ELSE misled \cup {visit}
    /\ \/ /\ visit.place.at = "chat"
          /\ HandleMessage(ip, JOIN_SESSION(visit.place.word), "app")
       \/ /\ visit.place.at = "name"
          /\ HandleMessage(ip, RING_HANDLE(visit.place.word), "app")
       \/ /\ visit.place.at \notin {"chat", "name"}
          /\ UNCHANGED <<vars, told>>

OpensChat(ip) == \E visit \in ChatVisits : Opens(ip, visit)
OpensName(ip) == \E visit \in NameVisits : Opens(ip, visit)
OpensPage(ip) == \E visit \in PageVisits : Opens(ip, visit)

Sends(ip, frame, by) == HandleMessage(ip, frame, by) /\ UNCHANGED misled

StartsChat(ip) == \E id \in Ids : Sends(ip, CREATE_SESSION(id), "app")

\* Both ends exchange keys; what a user writes is sanitized, checked, sealed.
SendsKey(ip) == Sends(ip, SEND_MESSAGE(KeyMessage), "app")

Says(ip) == \E written \in Texts, sanitized \in {"web", "phone"} :
    LET text == IF sanitized = "web" THEN SanitizedWeb(written) ELSE SanitizedPhone(written)
    IN  /\ Composes(text)
        /\ Sends(ip, SEND_MESSAGE(ChatMessage(text)), IF text.controls = 0 THEN "app" ELSE "pasted")

\* handleSubmit of the claim control: a name is checked unless a lease key was
\* pasted for it.
Claims(ip) == \E name \in Names \cup Pages :
    \/ /\ IsAllowedHandle(name)
       /\ Sends(ip, CLAIM_HANDLE(NormalizeHandle(name), NoProof), "app")
    \/ Sends(ip, CLAIM_HANDLE(NormalizeHandle(name), Proof(124, 88)), "pasted")

Leaves(ip) ==
    \/ \E id \in Ids : Sends(ip, LEAVE_SESSION(id), "app")
    \/ Sends(ip, UNCLAIM_HANDLE, "app")
    \/ Sends(ip, PING, "app")

SendsOther(ip) == \E frame \in OtherFrames : Sends(ip, frame, "other")

----------------------------------------------------------------------------

DoorNext ==
    \/ \E ip \in IPs :
          \/ OpensChat(ip) \/ OpensName(ip) \/ OpensPage(ip) \/ StartsChat(ip)
          \/ SendsKey(ip) \/ Says(ip) \/ Claims(ip) \/ Leaves(ip) \/ SendsOther(ip)
    \/ (SweepRateLimits \/ Tick) /\ UNCHANGED doorVars

DoorSpec == DoorInit /\ [][DoorNext]_allVars

----------------------------------------------------------------------------

(* Whatever an app shows for a chat or for a name leads to that chat or    *)
(* that name, in every app and however it gets there: as a page, a system  *)
(* link, a path, or pasted into either join form, although both forms try  *)
(* a name first, the phone's other readers an id, and the digits of an id  *)
(* are also the letters of names.                                          *)
LinksLeadHome == misled = {}

(* No frame of an app is refused for what it says, only for the limits:    *)
(* the longest text both composers let through still fits once it is       *)
(* JSON, UTF-8, sealed and base64.  The exceptions are what a user pasted  *)
(* unseen: a lease key for a name that is none, control characters, which  *)
(* the web page keeps, and lone surrogates, which no Text has.             *)
AppsAreUnderstood == told \subseteq {"RATE_LIMITED"}
============================================================================
