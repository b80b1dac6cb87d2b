---------------------------- MODULE MCNativeHost ----------------------------
(* Instances of NativeHost: what each caller may call. *)
EXTENDS NativeHost, TLC
CONSTANTS c1, c2
BeginAndAny == (c1 :> {"begin"}) @@ (c2 :> Kind)
BeginAndWait == (c1 :> {"begin"}) @@ (c2 :> {"work", "wait", "forget"})
=============================================================================
