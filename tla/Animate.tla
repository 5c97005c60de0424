------------------------------- MODULE Animate -------------------------------
(***************************************************************************)
(* src/Tanimate: a thread per string moves it over the screen and hands it *)
(* to the agent thread, which draws it; main() turns strings around when a *)
(* key is pressed.  The hand-over is one pointer, one mutex and a single   *)
(* condition variable on which all threads wait.                           *)
(***************************************************************************)
EXTENDS Integers, FiniteSets

CONSTANTS
  Units,        \* the threads in animate(), one per mov_unit
  Agent, Main,  \* the thread in agent(), and main()
  NoUnit,       \* the null pointer
  LastCol,      \* COLS - 1 - len: a string in this column touches the right border
  MaxOutside    \* bound: keys pressed and returns of pthread_cond_wait()
                \* without a signal

Threads == Units \cup {Agent, Main}
NoThread == NoUnit

VARIABLES
  up,          \* the unit handed over
  mv_mutex,    \* its owner
  waiting,     \* the threads that wait for the condition variable, flag
  pc,
  units,       \* per unit: col, dir
  aniGhosts    \* what happened: units sent over a border, spurious wake-ups, a draw
               \* through the null pointer; and the bound

aniVars == <<up, mv_mutex, waiting, pc, units, aniGhosts>>

(* set_up() chooses directions; main() takes the mutex before it creates   *)
(* the agent, whose first wait releases it.                                *)
Init ==
  /\ up = NoUnit
  /\ mv_mutex = Main
  /\ waiting = {}
  /\ pc = [t \in Threads |-> CASE t = Agent -> "wait" [] t = Main -> "getch" [] OTHER -> "start"]
  /\ units \in [Units -> [col : {0}, dir : {1, -1}]]
  /\ aniGhosts = [out |-> {}, spurious |-> FALSE, null |-> FALSE, outside |-> 0]

-----------------------------------------------------------------------------
At(t, where) == pc[t] = where /\ pc[Main] # "ended" /\ ~aniGhosts.null

GoTo(t, where) == pc' = [pc EXCEPT ![t] = where]

(* A unit at a border with the direction out of the screen.                *)
Outward(u) ==
  \/ u.col = 0 /\ u.dir = -1
  \/ u.col = LastCol /\ u.dir = 1

Turned(u) == [u EXCEPT !.dir = -@]

(* animate(): the column a string starts in.                               *)
Place(a) ==
  /\ At(a, "start") /\ GoTo(a, "move")
  /\ \E col \in 0..LastCol : units' = [units EXCEPT ![a].col = col]
  /\ aniGhosts' = [aniGhosts EXCEPT !.out = IF Outward(units'[a]) THEN @ \cup {a} ELSE @]
  /\ UNCHANGED <<up, mv_mutex, waiting>>

(* After usleep(): one column on.  Where a unit goes that has left the     *)
(* screen is not followed.                                                 *)
Move(a) ==
  /\ At(a, "move") /\ GoTo(a, "bounce")
  /\ units' = IF units[a].col \notin 0..LastCol THEN units
              ELSE [units EXCEPT ![a].col = @ + units[a].dir]
  /\ UNCHANGED <<up, mv_mutex, waiting, aniGhosts>>

(* Faulty variant: the right border is tested one column too far.          *)
BounceLate(a) ==
  /\ At(a, "bounce") /\ GoTo(a, "lock")
  /\ units' = IF units[a] \in {[col |-> 0, dir |-> -1], [col |-> LastCol + 1, dir |-> 1]}
                THEN [units EXCEPT ![a] = Turned(@)] ELSE units
  /\ UNCHANGED <<up, mv_mutex, waiting, aniGhosts>>

(* A unit that has reached a border is turned around.                      *)
Bounce(a) ==
  /\ At(a, "bounce") /\ GoTo(a, "lock")
  /\ units' = IF Outward(units[a]) THEN [units EXCEPT ![a] = Turned(@)] ELSE units
  /\ UNCHANGED <<up, mv_mutex, waiting, aniGhosts>>

-----------------------------------------------------------------------------
(* The hand-over.                                                          *)

(* P1: the mutex, with `where' the next place of the code.                 *)
Lock(a) ==
  /\ At(a, "lock") /\ mv_mutex = NoThread
  /\ mv_mutex' = a
  /\ GoTo(a, IF up # NoUnit THEN "wait" ELSE "hand_over")
  /\ UNCHANGED <<up, waiting, units, aniGhosts>>

(* pthread_cond_wait() gives the mutex back, whoever has taken it ...      *)
Wait(t) ==
  /\ At(t, "wait") /\ GoTo(t, "waiting")
  /\ waiting' = waiting \cup {t} /\ mv_mutex' = NoThread
  /\ UNCHANGED <<up, units, aniGhosts>>

(* ... and takes it again after it was woken, by a signal or by nothing.   *)
Woken(t) ==
  /\ At(t, "waiting") /\ t \notin waiting /\ mv_mutex = NoThread
  /\ mv_mutex' = t
  /\ GoTo(t, IF t = Agent THEN "draw" ELSE "hand_over")
  /\ UNCHANGED <<up, waiting, units, aniGhosts>>

Spurious(t) ==
  /\ At(t, "waiting") /\ t \in waiting /\ aniGhosts.outside < MaxOutside
  /\ waiting' = waiting \ {t}
  /\ aniGhosts' = [aniGhosts EXCEPT !.spurious = TRUE, !.outside = @ + 1]
  /\ UNCHANGED <<up, mv_mutex, pc, units>>

(* pthread_cond_signal() wakes one of the threads that wait, any of them.  *)
Signal == waiting' \in IF waiting = {} THEN {{}} ELSE {waiting \ {t} : t \in waiting}

(* up = info; V2; V1.                                                      *)
HandOver(a) ==
  /\ At(a, "hand_over") /\ GoTo(a, "move")
  /\ up' = a /\ Signal /\ mv_mutex' = NoThread
  /\ UNCHANGED <<units, aniGhosts>>

(* Faulty variant: the agent forgets to signal.                            *)
DrawSilently ==
  /\ At(Agent, "draw") /\ GoTo(Agent, "wait")
  /\ up' = NoUnit /\ waiting' = waiting
  /\ aniGhosts' = [aniGhosts EXCEPT !.null = up = NoUnit]
  /\ UNCHANGED <<mv_mutex, units>>

(* agent(): the unit is drawn, also through the null pointer, up = NULL,   *)
(* V2, and back to pthread_cond_wait() with the mutex.                     *)
Draw ==
  /\ At(Agent, "draw") /\ GoTo(Agent, "wait")
  /\ up' = NoUnit /\ Signal
  /\ aniGhosts' = [aniGhosts EXCEPT !.null = up = NoUnit]
  /\ UNCHANGED <<mv_mutex, units>>

-----------------------------------------------------------------------------
(* A digit turns one unit, a blank turns all, between any two steps of     *)
(* their threads.                                                          *)
Turn ==
  /\ At(Main, "getch") /\ aniGhosts.outside < MaxOutside
  /\ \E S \in {{a} : a \in Units} \cup {Units} :
       /\ units' = [a \in Units |-> IF a \in S THEN Turned(units[a]) ELSE units[a]]
       /\ aniGhosts' = [aniGhosts EXCEPT !.outside = @ + 1,
                                 !.out = @ \cup {a \in S : Outward(units'[a]) /\ pc[a] # "bounce"}]
  /\ UNCHANGED <<up, mv_mutex, waiting, pc>>

(* 'q': main() waits for the mutex, cancels the threads and ends.          *)
Quit ==
  /\ At(Main, "getch") /\ GoTo(Main, "lock")
  /\ UNCHANGED <<up, mv_mutex, waiting, units, aniGhosts>>

LockAndEnd ==
  /\ At(Main, "lock") /\ mv_mutex = NoThread
  /\ mv_mutex' = Main /\ GoTo(Main, "ended")
  /\ UNCHANGED <<up, waiting, units, aniGhosts>>

-----------------------------------------------------------------------------
AnimateStep(a) ==
  Place(a) \/ Move(a) \/ Bounce(a) \/ Lock(a) \/ Wait(a) \/ Woken(a) \/ HandOver(a)

AgentStep == Wait(Agent) \/ Woken(Agent) \/ Draw

Next ==
  \/ \E a \in Units : AnimateStep(a) \/ Spurious(a)
  \/ AgentStep \/ Spurious(Agent)
  \/ Turn \/ Quit \/ LockAndEnd

(* Threads run.  A mutex that is free again and again is got by the agent  *)
(* and by main(), since it is free while all units sleep; and a signal     *)
(* does not pass over the agent for ever.                                  *)
AniFairness ==
  /\ \A a \in Units : WF_aniVars(AnimateStep(a))
  /\ WF_aniVars(AgentStep)
  /\ SF_aniVars(Woken(Agent)) /\ SF_aniVars(LockAndEnd)
  /\ SF_aniVars(Agent \in waiting /\ \E a \in Units : HandOver(a) /\ Agent \notin waiting')

AniSpec == Init /\ [][Next]_aniVars /\ AniFairness

-----------------------------------------------------------------------------
(* The threads never wait for each other: while the agent has something to *)
(* draw some thread is awake, though a signal may wake an animate thread   *)
(* where the agent was meant; and the agent, which does not test up, draws *)
(* no null pointer unless a wake-up was spurious.                          *)
HandOverWorks ==
  /\ Threads \ {Main} # waiting
  /\ aniGhosts.null => aniGhosts.spurious

(* A string stays on the screen unless it was sent over the border: placed *)
(* there with its direction outward, or turned by a key while it stood     *)
(* there.  A key between the step and the test does no harm.               *)
OnScreen ==
  \A a \in Units : units[a].col \in 0..LastCol \/ a \in aniGhosts.out

(* The agent draws again and again until the user quits, though a signal   *)
(* may wake a unit that overwrites what was handed over; and quitting      *)
(* works from the start on, where main() waits for a mutex that it has     *)
(* itself taken and that the agent gives back.                             *)
KeepsDrawing ==
  []<>(\/ pc[Agent] = "draw" /\ pc[Main] # "lock"
       \/ pc[Main] = "ended"
       \/ aniGhosts.null)
=============================================================================
