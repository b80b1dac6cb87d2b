--------------------------- MODULE MCLocalSession ---------------------------
(* Instances of LocalSession.  In the large run the second server is started *)
(* only when the first has gone; LocalSessionStart has both at once.         *)
EXTENDS LocalSession
CONSTANTS s1, s2
InTurn == spc[s2] # "unborn" => spc[s1] = "gone"
MCSpec ==
  /\ Init /\ [][Next /\ InTurn']_vars
  /\ \A s \in Server : WF_vars(Serve(s)) /\ WF_vars(closeServer(s))
  /\ \A c \in Client : WF_vars(Handle(c))
=============================================================================
