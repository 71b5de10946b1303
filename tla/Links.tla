------------------------------- MODULE Links -------------------------------
(***************************************************************************)
(* The links of the apps: who makes which, and where every reader of a     *)
(* link, of a path or of a pasted text takes its user.                     *)
(*                                                                         *)
(* A word is one segment of a link, or a whole pasted text, as far as the  *)
(* patterns of the apps tell words apart: its length, how many hex digits  *)
(* it begins with, whether it is made of letters, digits and hyphens only, *)
(* whether its first character is a letter, whether any is a capital, and  *)
(* whether it is a path of the apps.  Links have at most two segments.     *)
(***************************************************************************)
EXTENDS Integers, Sequences

Word(len, hex, slug, letter, upper, reserved) ==
    [len |-> len, hex |-> hex, slug |-> slug, letter |-> letter,
     upper |-> upper, reserved |-> reserved]

Words == [len : Nat, hex : Nat, slug : BOOLEAN, letter : BOOLEAN,
          upper : BOOLEAN, reserved : BOOLEAN]

NoWord == Word(0, 0, FALSE, FALSE, FALSE, FALSE)
CHAT   == Word(4, 1, TRUE, TRUE, FALSE, TRUE)       \* "chat"
ORIGIN == Word(20, 0, FALSE, TRUE, FALSE, FALSE)    \* the host of the web app

\* The ids the apps and the relay make: 16 random bytes in hex.
Generated(letter) == Word(32, 32, TRUE, letter, FALSE, FALSE)

IsSessionId(w) == w.hex = w.len /\ w.len \in 16..64

NormalizeHandle(w) == [w EXCEPT !.upper = FALSE]

\* Mutant of HandlePattern: 31 more characters, not 30.
HandlePatternOneMore(w) == w.slug /\ w.letter /\ w.len \in 2..32

HandlePattern(w) == w.slug /\ w.letter /\ w.len \in 2..31
IsReservedPath(w) == w.reserved
IsHandleSlug(w)   == HandlePattern(w) /\ ~IsReservedPath(w)

\* With the empty allow-list of the sources.
IsAllowedHandle(w) == IsHandleSlug(NormalizeHandle(w))

----------------------------------------------------------------------------
(* Links: "https" and "app" are urls, "path" is a path of its own, "word"  *)
(* a single word.                                                          *)

Link(scheme, host, path) == [scheme |-> scheme, host |-> host, path |-> path]

PublicChatUrl(id)           == Link("https", ORIGIN, <<CHAT, id>>)
CustomSchemeUrl(id)         == Link("app", CHAT, <<id>>)
PublicHandleUrl(name)       == Link("https", ORIGIN, <<NormalizeHandle(name)>>)
CustomSchemeHandleUrl(name) == Link("app", NormalizeHandle(name), <<>>)
Bare(word)                  == Link("word", NoWord, <<word>>)
Path(path)                  == Link("path", NoWord, path)

Chat(id)   == [at |-> "chat", word |-> id]
Name(name) == [at |-> "name", word |-> name]
Nowhere    == [at |-> "nowhere", word |-> NoWord]

FirstOf(a, b) == IF a # NoWord THEN a ELSE b
IfId(w)       == IF IsSessionId(w) THEN w ELSE NoWord
First(path)   == IF path = <<>> THEN NoWord ELSE path[1]

\* The segment after "chat".
AfterChat(path) == IF Len(path) = 2 /\ path[1] = CHAT THEN path[2] ELSE NoWord

\* The hex digits a word begins with, at most that many.
Digits(w, most) ==
    LET n == IF w.hex < most THEN w.hex ELSE most
    IN  IF w.hex = w.len /\ n = w.len THEN w ELSE Word(n, n, TRUE, w.letter, w.upper, FALSE)

\* extractHandle: a name alone, alone in a path, or as the host of an app link.
ExtractHandle(link) ==
    LET sole == IF Len(link.path) = 1 /\ IsHandleSlug(link.path[1])
                THEN NormalizeHandle(link.path[1]) ELSE NoWord
    IN  IF link.scheme = "path" \/ (link.scheme = "app" /\ link.host = CHAT) THEN NoWord
        ELSE IF link.scheme = "app" /\ IsHandleSlug(link.host) /\ link.path = <<>>
             THEN NormalizeHandle(link.host)
        ELSE sole

----------------------------------------------------------------------------
(* The phone.                                                              *)

\* The last try reads a prefix: an app link of a longer word that begins with
\* 16 hex digits is read as their chat.
SessionIdFromUrl(link) ==
    LET target == IF link.host = CHAT THEN First(link.path) ELSE link.host
        custom == IF target.hex >= 16 THEN Digits(target, 64) ELSE NoWord
    IN  FirstOf(IfId(AfterChat(link.path)),
                IF link.scheme = "app" THEN FirstOf(IfId(target), custom) ELSE NoWord)

ExtractSessionId(link) ==
    IF link.scheme \in {"https", "app"} THEN SessionIdFromUrl(link)
    ELSE IF link.scheme = "path" THEN IfId(AfterChat(link.path))
    ELSE IfId(link.path[1])

ParseDeepLink(link) ==
    IF ExtractSessionId(link) # NoWord THEN Chat(ExtractSessionId(link))
    ELSE IF ExtractHandle(link) # NoWord THEN Name(ExtractHandle(link))
    ELSE Nowhere

\* The routes of both apps, capitals in a name folded by the page.
Route(path) ==
    IF AfterChat(path) # NoWord THEN Chat(AfterChat(path))
    ELSE IF Len(path) = 1 /\ IsHandleSlug(path[1]) THEN Name(NormalizeHandle(path[1]))
    ELSE Nowhere

\* +native-intent: what is no link of ours is left to the router.
RedirectSystemPath(link) ==
    IF ParseDeepLink(link) # Nowhere THEN ParseDeepLink(link) ELSE Route(link.path)

\* The join screen puts the id it finds in place of the text as it is typed,
\* and reads the text again, a name first.
HandleTextChange(link) ==
    IF ExtractSessionId(link) # NoWord THEN Bare(ExtractSessionId(link)) ELSE link

HandleJoin(link) ==
    IF ExtractHandle(link) # NoWord THEN Name(ExtractHandle(link))
    ELSE IF ExtractSessionId(link) # NoWord THEN Chat(ExtractSessionId(link))
    ELSE Nowhere

----------------------------------------------------------------------------
(* The web.                                                                *)

ExtractSessionIdWeb(link) ==
    LET named == IF link.scheme = "app" /\ link.host = CHAT THEN First(link.path)
                 ELSE IF link.scheme = "path" THEN AfterChat(link.path)
                 ELSE NoWord
    IN  IF link.scheme = "https" /\ AfterChat(link.path) # NoWord THEN AfterChat(link.path)
        ELSE IF named.hex > 0 THEN Digits(named, named.hex)
        ELSE IF link.scheme = "word" THEN link.path[1]
        ELSE NoWord

HandleSubmit(link) ==
    IF ExtractHandle(link) # NoWord THEN Name(ExtractHandle(link))
    ELSE IF IsSessionId(ExtractSessionIdWeb(link)) THEN Chat(ExtractSessionIdWeb(link))
    ELSE Nowhere

----------------------------------------------------------------------------

Readers == {"browser", "join form", "join screen", "deep link", "system path"}

\* Which readers a text of this form can reach.
MayRead(reader, link) ==
    CASE reader = "browser"                     -> link.scheme = "https"
      [] reader = "deep link"                   -> link.scheme \in {"https", "app"}
      [] reader = "system path"                 -> link.scheme # "word"
      [] reader \in {"join form", "join screen"} ->
             link.scheme # "path" \/ AfterChat(link.path) # NoWord

\* Where a reader takes its user.
Leads(reader, link) ==
    CASE reader = "browser"     -> Route(link.path)
      [] reader = "join form"   -> HandleSubmit(link)
      [] reader = "join screen" -> HandleJoin(HandleTextChange(link))
      [] reader = "deep link"   -> ParseDeepLink(link)
      [] reader = "system path" -> RedirectSystemPath(link)

\* What the apps show, share or ask to type for a chat, for a name, and for
\* a page that is neither.
ChatLinks(id)   == {PublicChatUrl(id), CustomSchemeUrl(id), Bare(id), Path(<<CHAT, id>>)}
NameLinks(name) == {PublicHandleUrl(name), Bare(name), Path(<<name>>)}
PageLinks(page) == {PublicHandleUrl(page), Bare(page), Path(<<page>>)}
============================================================================
