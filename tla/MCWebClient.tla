----------------------------- MODULE MCWebClient -----------------------------
(***************************************************************************)
(* Small instances of WebClient: two tabs with the newest bundle and the   *)
(* one before it, a third with the first one; ann has an account, bob may. *)
(***************************************************************************)
EXTENDS WebClient, TLC

CONSTANTS t0, t1, t2, ann, bob, x, y

MCBuild == t0 :> "first" @@ t1 :> "current" @@ t2 :> "previous"
MCAccount == ann :> x @@ bob :> NoMail

=============================================================================
