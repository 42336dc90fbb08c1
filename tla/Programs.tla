------------------------------ MODULE Programs ------------------------------
(***************************************************************************)
(* The modules that share nothing with the TDMA drivers' state machines,   *)
(* each on a board of its own: TLC checks their properties in one run.     *)
(* What a board runs is chosen once, and the others stay as they start.    *)
(***************************************************************************)
EXTENDS RingBuffer, Ipc, Radio, Timers, RcRobot, Hdlc, Lh2, Qdec

VARIABLE program

Boards ==
  {"ring", "ipc", "radio", "timers", "robot", "hdlc", "lighthouse",
   "wheel"}

ring_vars == <<rb, got>>

ProgramsInit ==
  /\ program \in Boards
  /\ Init /\ IpcInit /\ RadioInit /\ TimersInit /\ RobotInit /\ HdlcInit
  /\ Lh2Init /\ QdecInit
  /\ program # "timers" => peripheral = "TIMER"   \* either, where it matters

\* Which variables belong to which board.
Frozen(board) ==
  /\ board # "ring"       => UNCHANGED ring_vars
  /\ board # "ipc"        => UNCHANGED ipc_vars
  /\ board # "radio"      => UNCHANGED radio_vars
  /\ board # "timers"     => UNCHANGED timer_vars
  /\ board # "robot"      => UNCHANGED robot_vars
  /\ board # "hdlc"       => UNCHANGED hdlc_vars
  /\ board # "lighthouse" => UNCHANGED lh_vars
  /\ board # "wheel"      => UNCHANGED qdec_vars

Runs(board) == program = board /\ UNCHANGED program /\ Frozen(board)

ProgramsNext ==
  \/ Runs("ring") /\ Next
  \/ Runs("ipc") /\ IpcNext
  \/ Runs("radio") /\ RadioNext
  \/ Runs("timers") /\ TimersNext
  \/ Runs("robot") /\ RobotNext
  \/ Runs("hdlc") /\ HdlcNext
  \/ Runs("lighthouse") /\ Lh2Next
  \/ Runs("wheel") /\ QdecNext

ProgramsSpec ==
  /\ ProgramsInit /\ [][ProgramsNext]_<<program, vars, ipc_vars, radio_vars,
                          timer_vars, robot_vars, hdlc_vars, lh_vars, qdec_vars>>
  /\ IpcFairness

\* Values for TLC: payloads with every byte that is escaped, and one too long.
MCPayloads == {<<"FLAG">>, <<"ESCAPE">>, <<"data", "FLAG_ESCAPED", "data">>}
MCChecksums == {<<"data", "data">>}

=============================================================================
