-------------------------- MODULE MCModelInvocation --------------------------
(***************************************************************************)
(* Small instances of the model proxy.  Key "face": two requests without a *)
(* task and one of task "t" with another prompt, with the routes           *)
(* configured differently for each.  Key "room": a request of task "t" and *)
(* its retry, which may come while the first one executes and then joins   *)
(* it, but not while it is asking (AsksAlone).                             *)
(***************************************************************************)
EXTENDS ModelInvocation

MCKeyOf == [a |-> "face", b |-> "face", c |-> "face", d |-> "room", e |-> "room"]
MCTaskOf == [a |-> NoTask, b |-> NoTask, c |-> "t", d |-> "t", e |-> "t"]
MCBodyOf == [a |-> "smile", b |-> "smile", c |-> "frown", d |-> "smile", e |-> "smile"]
MCRoutesOf == [a |-> <<"own">>, b |-> <<"cloud", "own">>, c |-> <<"cloud">>, d |-> <<"own">>,
               e |-> <<"own">>]

(* The retry meets request a and the cancellation only, to keep it small.  *)
RetryApart == pc["e"] = "new" \/ {pc["b"], pc["c"]} = {"new"}

(* Two requests of one task with one key.                                  *)
SameKeyOf == [a |-> "face", b |-> "face"]
SameTaskOf == [a |-> "t", b |-> "t"]
SameBodyOf == [a |-> "smile", b |-> "smile"]
SameRoutesOf == [a |-> <<"own">>, b |-> <<"own">>]
=============================================================================
