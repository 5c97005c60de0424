-------------------------- MODULE MCSmallPrograms --------------------------
(***************************************************************************)
(* The small programs of the repository: the time server with its shared   *)
(* memory, the threaded web server, the animation, the ball game, a        *)
(* connection of the CGI server and the shell.  They share nothing, so a   *)
(* behaviour is one of one program, and the others do not start.           *)
(***************************************************************************)
EXTENDS ShmTime

CONSTANTS
  Units, Agent, Main, NoUnit, LastCol, MaxOutside,                 \* Animate
  MaxConnections, MaxFds,                                          \* ThreadedWeb
  Letters, BufferSize, MaxText,                                    \* CgiConn
  Width, Height, Before, PlateLen, PlateDir, Delay, MaxKeys,       \* Pong
  a, ab, b, Values, Empty, Unset, Inherited, MAXVARS               \* Shell

ASSUME SmallProgramsAssumption ==
  /\ Units # {} /\ {Agent, Main, NoUnit} \cap Units = {}
  /\ Agent # Main /\ NoUnit \notin {Agent, Main}
  /\ LastCol \in Nat \ {0}
  /\ {MaxConnections, MaxFds, Before, PlateLen, PlateDir} \subseteq Nat
  /\ {BufferSize, Width, Height, Delay, MAXVARS} \subseteq Nat \ {0}

VARIABLES
  up, mv_mutex, waiting, pc, units, aniGhosts,
  fds, conn, thread, bytes_mutex, serv, webGhosts,
  text, arrived, taken, peer, m_buf, cgi, ran,
  ball, plate, ticking, running, at, moved, pongGhosts,
  if_state, if_result, tab, last, script, promised,
  program

Animation == INSTANCE Animate
Web == INSTANCE ThreadedWeb
Cgi == INSTANCE CgiConn WITH Programs <- {<<"a">>, <<"a", "a">>}
Game == INSTANCE Pong
Sh == INSTANCE Shell WITH
        Names <- {a, ab, b}, Prefixes <- {<<a, ab>>}, Environment <- <<ab>>

aniVars == <<up, mv_mutex, waiting, pc, units, aniGhosts>>
webVars == <<fds, conn, thread, bytes_mutex, serv, webGhosts>>
cgiVars == <<text, arrived, taken, peer, m_buf, cgi, ran>>
pongVars == <<ball, plate, ticking, running, at, moved, pongGhosts>>
shellVars == <<if_state, if_result, tab, last, script, promised>>

(* The animation has ended; the other programs do nothing as long as       *)
(* nobody starts a process, connects, sends or types.                      *)
AniIdle ==
  /\ up = NoUnit /\ mv_mutex = NoUnit /\ waiting = {} /\ units = <<>> /\ aniGhosts = [null |-> FALSE]
  /\ pc = [t \in Animation!Threads |-> "ended"]
CgiIdle ==
  /\ text = <<>> /\ arrived = 0 /\ taken = 0 /\ peer = "open" /\ m_buf = <<>>
  /\ cgi = "closed" /\ ran = <<>>

PongIdle ==
  /\ ball = <<>> /\ plate = 0 /\ ticking = FALSE /\ running = <<>> /\ at = <<>> /\ moved = FALSE
  /\ pongGhosts = [lost |-> TRUE, keys |-> MaxKeys]

AllInit ==
  /\ Init /\ Web!Init /\ Sh!Init
  /\ \/ program \in {"shm", "web", "shell"} /\ AniIdle /\ CgiIdle /\ PongIdle
     \/ program = "animate" /\ Animation!Init /\ CgiIdle /\ PongIdle
     \/ program = "pong" /\ Game!Init /\ AniIdle /\ CgiIdle
     \/ program = "cgi" /\ Cgi!Init /\ AniIdle /\ PongIdle

AllNext ==
  \/ program = "shm" /\ Next /\ UNCHANGED <<aniVars, webVars, cgiVars, pongVars, shellVars, program>>
  \/ program = "animate" /\ Animation!Next /\ UNCHANGED <<vars, webVars, cgiVars, pongVars, shellVars, program>>
  \/ program = "web" /\ Web!Next /\ UNCHANGED <<vars, aniVars, cgiVars, pongVars, shellVars, program>>
  \/ program = "cgi" /\ Cgi!Next /\ UNCHANGED <<vars, aniVars, webVars, pongVars, shellVars, program>>
  \/ program = "pong" /\ Game!Next /\ UNCHANGED <<vars, aniVars, webVars, cgiVars, shellVars, program>>
  \/ program = "shell" /\ Sh!Next /\ UNCHANGED <<vars, aniVars, webVars, cgiVars, pongVars, program>>

allVars == <<vars, aniVars, webVars, cgiVars, pongVars, shellVars, program>>

(* The fairness of the time server and of the animation.                   *)
AllSpec == AllInit /\ [][AllNext]_allVars /\ Fairness /\ Animation!AniFairness

-----------------------------------------------------------------------------
(* Animate: threads that hand over a string do not wait for each other,    *)
(* and the agent draws no null pointer but after a spurious wake-up.       *)
HandOverWorks == program = "animate" => Animation!HandOverWorks

(* Animate: strings stay on the screen.                                    *)
OnScreen == program = "animate" => Animation!OnScreen

(* Animate: the agent draws again and again until the user quits, and then *)
(* the program ends.                                                       *)
KeepsDrawing == Animation!KeepsDrawing

(* ThreadedWeb: no update of the shared counter of bytes is lost.          *)
BytesExact == Web!BytesExact

(* ThreadedWeb: a connection gets the answer to its own request.           *)
AnswersOwnRequest == Web!AnswersOwnRequest

(* CgiConn: however the name of a program is cut into pieces, that program *)
(* is run and no other.                                                    *)
RunsWhatIsAsked == program = "cgi" => Cgi!RunsWhatIsAsked

(* Pong: the ball stays in the field and can go on moving, whatever keys   *)
(* come in the middle of a move.                                           *)
BallGoesOn == program = "pong" => Game!BallGoesOn

(* Pong: a ball that was caught is not lost while it stands on the plate.  *)
CaughtIsSafe == program = "pong" => Game!CaughtIsSafe

(* Shell: commands between if and fi run in the branch they stand in.      *)
RightBranchRuns == Sh!RightBranchRuns

(* Shell: the table of variables holds what was assigned and exported.     *)
VariablesHold == Sh!VariablesHold
=============================================================================
