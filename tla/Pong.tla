-------------------------------- MODULE Pong --------------------------------
(***************************************************************************)
(* The ball game of src/Pong/pong.c.  main() sleeps; all that happens is   *)
(* in two signal handlers, ball_move() for SIGALRM and on_input() for      *)
(* SIGIO.  Each may interrupt main() and the other handler, and not        *)
(* itself.                                                                 *)
(***************************************************************************)
EXTENDS Integers, Sequences

CONSTANTS
  Width, Height,  \* LEFT_EDGE and TOP_ROW are 0 here, RIGHT_EDGE and BOT_ROW these
  Before,         \* LEFT_EDGE - X_INIT: how far left of the edge the ball starts
  PlateLen,       \* strlen(PLATE_SYMBOL)
  PlateDir,       \* PLATE_DIR
  Delay,          \* X_TTM and Y_TTM: ticks to a move
  MaxKeys         \* bound: keys pressed

Axes == {"x", "y"}
Keys == {"p", "f", "s", "a", "d"}

VARIABLES
  ball,       \* per axis: pos, dir, ttm and ttg of the_ball
  plate,      \* the_plate.x
  ticking,    \* is the interval timer on
  running,    \* the handlers on the stack, the innermost last
  at,         \* the next statement of each handler
  moved,      \* the local variable of ball_move()
  pongGhosts  \* what happened: axes whose ttm fell to zero under a reload; moved was
              \* left over; a speed key and a tick in each other; the ball stands on
              \* the plate, or was lost there; the end; and the keys

pongVars == <<ball, plate, ticking, running, at, moved, pongGhosts>>

First == <<"test", "y">>   \* of ball_move()

Init ==
  /\ ball = [a \in Axes |-> [pos |-> IF a = "x" THEN -Before ELSE Height \div 2,
                             dir |-> 1, ttm |-> Delay, ttg |-> Delay]]
  /\ plate = Width \div 2 /\ ticking = TRUE
  /\ running = <<>> /\ at = [ball_move |-> First, on_input |-> <<"key">>]
  /\ moved = FALSE
  /\ pongGhosts = [raced |-> {}, leftover |-> FALSE, mixed |-> FALSE, caught |-> FALSE,
                   lost |-> FALSE, keys |-> 0]

-----------------------------------------------------------------------------
After(a) == IF a = "y" THEN <<"test", "x">> ELSE <<"bounce">>

Runs(handler, where) ==
  /\ running # <<>> /\ running[Len(running)] = handler
  /\ at[handler] = where /\ ~pongGhosts.lost

Interrupts(handler) ==
  /\ \A i \in 1..Len(running) : running[i] # handler
  /\ ~pongGhosts.lost
  /\ running' = Append(running, handler)

Returns(handler, first) ==
  /\ running' = SubSeq(running, 1, Len(running) - 1)
  /\ at' = [at EXCEPT ![handler] = first]

GoTo(handler, where) == at' = [at EXCEPT ![handler] = where] /\ UNCHANGED running

-----------------------------------------------------------------------------
(* ball_move().  moved is not initialized: it is what was in its place.    *)
Tick ==
  /\ ticking /\ Interrupts("ball_move")
  /\ moved' \in BOOLEAN
  /\ pongGhosts' = [pongGhosts EXCEPT
       !.leftover = @ \/ moved', !.mixed = @ \/ at["on_input"][1] = "add"]
  /\ UNCHANGED <<ball, plate, ticking, at>>

(* Faulty variant: --ttg for ttg--.                                        *)
TestBehind(a) ==
  /\ Runs("ball_move", <<"test", a>>)
  /\ ball' = IF ball[a].ttm > 0 THEN [ball EXCEPT ![a].ttg = @ - 1] ELSE ball
  /\ GoTo("ball_move", IF ball[a].ttm > 0 /\ ball[a].ttg = 2 THEN <<"reload", a>>
                       ELSE After(a))
  /\ UNCHANGED <<plate, ticking, moved, pongGhosts>>

(* if (ttm > 0 && ttg-- == 1)                                              *)
Test(a) ==
  /\ Runs("ball_move", <<"test", a>>)
  /\ ball' = IF ball[a].ttm > 0 THEN [ball EXCEPT ![a].ttg = @ - 1] ELSE ball
  /\ GoTo("ball_move", IF ball[a].ttm > 0 /\ ball[a].ttg = 1 THEN <<"reload", a>>
                       ELSE After(a))
  /\ UNCHANGED <<plate, ticking, moved, pongGhosts>>

(* The ball moves, and ttg gets what ttm is by now.                        *)
Reload(a) ==
  /\ Runs("ball_move", <<"reload", a>>)
  /\ ball' = [ball EXCEPT ![a].pos = @ + ball[a].dir, ![a].ttg = ball[a].ttm]
  /\ moved' = TRUE
  /\ GoTo("ball_move", After(a))
  /\ pongGhosts' = [pongGhosts EXCEPT
       !.raced = IF ball[a].ttm <= 0 THEN @ \cup {a} ELSE @,
       !.caught = @ /\ a # "y"]
  /\ UNCHANGED <<plate, ticking>>

is_touched ==
  ball["y"].pos = Height /\ ball["x"].pos \in plate..(plate + PlateLen)

TurnX(b) ==
  IF b["x"].pos <= 0 THEN [b EXCEPT !["x"].dir = 1]
  ELSE IF b["x"].pos >= Width THEN [b EXCEPT !["x"].dir = -1] ELSE b

Bounced ==
  IF ball["y"].pos <= 0 THEN TurnX([ball EXCEPT !["y"].dir = 1])
  ELSE IF ball["y"].pos >= Height THEN TurnX([ball EXCEPT !["y"].dir = -1])
  ELSE TurnX(ball)

(* bounce_or_lose(): the ball is turned at the edges, or break_out() ends  *)
(* the game.                                                               *)
BounceOrLoseNow ==
  \/ /\ ball["y"].pos < Height \/ is_touched
     /\ ball' = Bounced
     /\ pongGhosts' = [pongGhosts EXCEPT !.caught = ball["y"].pos >= Height]
  \/ /\ ball["y"].pos >= Height /\ ~is_touched
     /\ pongGhosts' = [pongGhosts EXCEPT !.lost = TRUE]
     /\ ball' = ball

(* Faulty variant: the edges are looked at whether the ball moved or not.  *)
BounceOrLoseAlways ==
  /\ Runs("ball_move", <<"bounce">>)
  /\ BounceOrLoseNow
  /\ Returns("ball_move", First)
  /\ UNCHANGED <<plate, ticking, moved>>

BounceOrLose ==
  /\ Runs("ball_move", <<"bounce">>)
  /\ IF moved THEN BounceOrLoseNow ELSE UNCHANGED <<ball, pongGhosts>>
  /\ Returns("ball_move", First)
  /\ UNCHANGED <<plate, ticking, moved>>

-----------------------------------------------------------------------------
(* on_input(): a key has been read.  p goes on as f, a break is missing.   *)
Key ==
  /\ pongGhosts.keys < MaxKeys /\ Interrupts("on_input")
  /\ pongGhosts' = [pongGhosts EXCEPT !.keys = @ + 1]
  /\ \E key \in Keys :
       /\ ticking' = (ticking /\ key # "p")
       /\ at' = [at EXCEPT !["on_input"] =
                   CASE key \in {"p", "f"} -> <<"add", -1, "x">> [] key = "s" -> <<"add", 1, "x">>
                     [] key = "a" -> <<"left">> [] OTHER -> <<"right">>]
  /\ UNCHANGED <<ball, plate, moved>>

(* ++ or -- of x_ttm and then of y_ttm.                                    *)
AddTo(a, n) ==
  /\ Runs("on_input", <<"add", n, a>>)
  /\ ball' = [ball EXCEPT ![a].ttm = @ + n]
  /\ IF a = "x" THEN GoTo("on_input", <<"add", n, "y">>) ELSE Returns("on_input", <<"key">>)
  /\ pongGhosts' = [pongGhosts EXCEPT !.mixed = @ \/ Len(running) > 1]
  /\ UNCHANGED <<plate, ticking, moved>>

(* move_plate(), which tests where the plate is before it moves.           *)
MovePlate ==
  /\ \/ /\ Runs("on_input", <<"left">>)
        /\ plate' = IF plate >= 0 THEN plate - PlateDir ELSE plate
     \/ /\ Runs("on_input", <<"right">>)
        /\ plate' = IF plate <= Width THEN plate + PlateDir ELSE plate
  /\ Returns("on_input", <<"key">>)
  /\ UNCHANGED <<ball, ticking, moved, pongGhosts>>

-----------------------------------------------------------------------------
BallMove == Tick \/ (\E a \in Axes : Test(a) \/ Reload(a)) \/ BounceOrLose
OnInput == Key \/ (\E a \in Axes, n \in {1, -1} : AddTo(a, n)) \/ MovePlate

Next == BallMove \/ OnInput

PongSpec == Init /\ [][Next]_pongVars

-----------------------------------------------------------------------------
(* Whatever keys are pressed in the middle of a move, the ball stays       *)
(* between the edges and the plate at most one step outside of them; and   *)
(* the ball can go on: between two ticks each axis has ticks to go, though *)
(* ttm is taken down to zero and up again.  Excepted is an axis whose ttm  *)
(* was taken to zero inside of ball_move(), between the test of ttm and    *)
(* its use: its count passes 1 and the ball hangs.                         *)
BallGoesOn ==
  /\ ball["y"].pos \in 0..Height /\ ball["x"].pos \in -Before..Width
  /\ plate \in -PlateDir..(Width + PlateDir)
  /\ \A a \in Axes :
       \/ ball[a].ttg >= 1 \/ a \in pongGhosts.raced
       \/ \E i \in 1..Len(running) : running[i] = "ball_move"

(* A ball that the plate has caught is not lost until it has moved up and  *)
(* come down again, though it stands on the bottom row for many ticks and  *)
(* the plate moves away.  Excepted are a moved that was left over on the   *)
(* stack, which makes a tick look again, and a speed key and a tick that   *)
(* interrupted each other, after which the axes move at different ticks.   *)
CaughtIsSafe ==
  pongGhosts.lost /\ pongGhosts.caught => pongGhosts.leftover \/ pongGhosts.mixed
=============================================================================
