--------------------------- MODULE MCHostStates ---------------------------
(* For model checking: the hosts of a process from mb_host_new to           *)
(* mb_host_destroy, one sealed machine of two pages with its states and     *)
(* deltas, or the placing of mappings in a block of ten pages.  Which of    *)
(* them is asked is chosen at the start.                                    *)
EXTENDS HostStates, HostLife, FreePages

VARIABLE job

\* A frame that writes a page, one that writes both and moves everything else,
\* and one that gives a page back.
MCCalls == {[write |-> {1}, free |-> {}, parts |-> {"threads"}],
            [write |-> {1, 2}, free |-> {}, parts |-> {"brk", "files", "random"}],
            [write |-> {}, free |-> {1}, parts |-> {"brk", "threads", "files"}]}
MCPages == 1..2

\* A session in which a stream is cut, foreign or old; one with planned states;
\* and one that goes back to a state and composes and applies deltas.
MCBudgets ==
    {[runs |-> 2, saves |-> 2, cuts |-> 1, sizes |-> 0, epochs |-> 1, deaths |-> 1, misreads |-> 0],
     [runs |-> 2, saves |-> 2, cuts |-> 0, sizes |-> 2, epochs |-> 0, deaths |-> 1, misreads |-> 0],
     [runs |-> 2, saves |-> 4, cuts |-> 0, sizes |-> 0, epochs |-> 2, deaths |-> 0, misreads |-> 1]}

\* Arenas that start and end at a group's edge and inside one, in a block
\* whose last group is cut off; and two states with holes of different sizes.
MCArenas == {[lo |-> 0, hi |-> 10], [lo |-> 1, hi |-> 9], [lo |-> 2, hi |-> 8], [lo |-> 3, hi |-> 10]}
MCStateFrees == {{0, 1, 4}, {2, 3, 4, 5, 7}}

allVars == <<job, hostVars, lifeVars, placeVars>>

MCInit ==
    /\ job \in {"life", "states", "place"}
    /\ StatesInit
    /\ LifeInit
    /\ PlaceInit
    /\ job # "states" => left = CHOOSE b \in Budgets : TRUE
    /\ job # "place" => arena = CHOOSE a \in Arenas : TRUE

MCNext ==
    \/ job = "states" /\ StatesNext /\ UNCHANGED <<job, lifeVars, placeVars>>
    \/ job = "life" /\ LifeNext /\ UNCHANGED <<job, hostVars, placeVars>>
    \/ job = "place" /\ PlaceNext /\ UNCHANGED <<job, hostVars, lifeVars>>

\* PlacedAsPageWalk where mappings are placed: "The answer is exactly the
\* page-by-page walk's" (memblock.c:1369).
PlacesAsPageWalk == job = "place" => PlacedAsPageWalk

MCSpec == MCInit /\ [][MCNext]_allVars
=============================================================================
