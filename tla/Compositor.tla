----------------------------- MODULE Compositor -----------------------------
(***************************************************************************)
(* The compositor's retained registrations (compositor/protocol/state.rs)  *)
(* and the commands on their way to it (egl_compositor.rs).  A sender gets *)
(* a receipt, that is answered when the command has been applied; an       *)
(* activation of an instance without a registration is answered by nothing,*)
(* which its waiter sees as an error.                                      *)
(***************************************************************************)
EXTENDS WidgetManager

VARIABLES
  retained,  \* [mode, shape] of each instance; mode none: no registration
  commands,  \* the commands for each instance that were not applied yet
  refused    \* <<sender, instance>> of activations that found no registration

compositorVars == <<retained, commands, refused>>

Nobody == "nobody"
Command(op, t, shape) == [op |-> op, by |-> t, shape |-> shape]
Unregistered == [mode |-> "none", shape |-> 0]

\* Registration r after command c.  Registering again keeps the mode.
Applied(r, c) ==
  CASE c.op = "register" ->
         [mode |-> IF r.mode = "none" THEN "inactive" ELSE r.mode, shape |-> c.shape]
    [] c.op = "unregister" -> Unregistered
    [] c.op = "activate" /\ r.mode # "none" -> [r EXCEPT !.mode = "accepting"]
    [] c.op = "deactivate" /\ r.mode # "none" -> [r EXCEPT !.mode = "inactive"]
    [] OTHER -> r

ApplyCommand(i) ==
  /\ commands[i] # <<>>
  /\ LET c == Head(commands[i])
     IN  /\ retained' = [retained EXCEPT ![i] = Applied(retained[i], c)]
         /\ refused' = IF c.op = "activate" /\ retained[i].mode = "none" /\ c.by # Nobody
                         THEN refused \cup {<<c.by, i>>} ELSE refused
  /\ commands' = [commands EXCEPT ![i] = Tail(@)]

\* t waits no longer for its receipts: it timed out, or it was dropped.
Orphaned(t, q) == [k \in 1..Len(q) |-> IF q[k].by = t THEN [q[k] EXCEPT !.by = Nobody] ELSE q[k]]

\* Mutant: nobody waits.
ReceiptsIgnored(t, S) == TRUE

\* The commands t sent for the instances of S have been answered.
Receipts(t, S) == \A i \in S : \A k \in 1..Len(commands[i]) : commands[i][k].by # t
=============================================================================
