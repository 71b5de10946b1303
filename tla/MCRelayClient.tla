--------------------------- MODULE MCRelayClient ---------------------------
(* Two ends of one conversation for TLC: a phone and a browser.            *)
EXTENDS ChatScreen, TLC

CONSTANTS host, guest
MCClients  == {host, guest}
MCProvider == host :> "native" @@ guest :> "web"
MCMessages == host :> 0 @@ guest :> 2
=============================================================================
