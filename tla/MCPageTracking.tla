--------------------------- MODULE MCPageTracking ---------------------------
(***************************************************************************)
(* Page tracking on small blocks, for TLC. The block does too much for one *)
(* instance: each run's guests and frontends keep to one of a few uses.    *)
(***************************************************************************)
EXTENDS PageTracking, TLC

Contents == Value \ {0}
Sym == Permutations(Contents)

Guest == {"mmap", "fixed", "protect", "unmap", "advise"}

\* Epochs under every call of the guest; a state copied in the background;
\* deltas applied, cut short and taken to a fresh machine; two pages in one
\* page of the host.
Epochs == [ops |-> Guest \cup {"external", "epoch", "delta"},
           pages |-> {0}, values |-> Value, asks |-> {"R", "RW", "RWSTACK"}]
Planning == [ops |-> {"mmap", "unmap", "advise", "external", "epoch", "delta", "plan"},
             pages |-> {0}, values |-> Value, asks |-> {"R", "RW"}]
Applying(v) == [ops |-> {"mmap", "unmap", "external", "epoch", "delta", "apply", "save", "load",
                         "cut_delta", "restart"},
                pages |-> {0}, values |-> {0, v}, asks |-> {"RW"}]
Sharing(v) == [ops |-> {"mmap", "protect", "epoch", "delta"},
               pages |-> {0, 1}, values |-> {0, v}, asks |-> {"RW"}]

TrackUses == {Epochs, Planning}
             \cup {Applying(v) : v \in Contents} \cup {Sharing(v) : v \in Contents}

\* States saved, loaded, cut short and refused; a mapping that grows by moving;
\* old states loaded into a fresh machine.
Saving == [ops |-> Guest \cup {"external", "grow", "invisible", "save", "load", "cut", "refuse"},
           pages |-> {0, 1}, values |-> Value, asks |-> {"R", "RW"}]
Moving == [ops |-> {"mmap", "unmap", "move"},
           pages |-> Page, values |-> Value, asks |-> {"RW"}]
Restarting == [ops |-> {"mmap", "protect", "unmap", "advise", "external", "invisible",
                        "save", "load", "cut", "restart"},
               pages |-> {0}, values |-> Value, asks |-> {"R", "RW"}]

StateUses == {Saving, Moving, Restarting}

\* Epochs over a mapping that moved; a protection changed under a plan.
MoveUses == {[ops |-> {"mmap", "move", "protect", "epoch", "delta"},
              pages |-> Page, values |-> Value, asks |-> {"RW"}]}
PlanProtectUses == {[ops |-> {"mmap", "protect", "epoch", "delta", "plan"},
                     pages |-> Page, values |-> Value, asks |-> {"R", "RW"}]}
=============================================================================
