--------------------------- MODULE FrameSchedule ---------------------------
(***************************************************************************)
(* What the scheduler of exercise 5 promises (01_cuat/tp_01_05): time is   *)
(* cut into frames of equal length, every tick of a frame belongs to one   *)
(* fixed task, and the owner of the current tick is the task that has the  *)
(* processor.  Before the first tick nobody is scheduled.                  *)
(***************************************************************************)
EXTENDS Naturals

CONSTANTS
    FrameLen,   \* ticks in a frame
    Owner       \* the task each tick of the frame belongs to

VARIABLES
    started,    \* has the first tick happened
    tick,       \* position inside the frame
    running     \* the scheduled task

frameVars == <<started, tick, running>>

FrameInit ==
    /\ started = FALSE
    /\ tick = 0
    /\ running = Owner[0]

\* The first tick opens the first frame.
FirstTick ==
    /\ ~started
    /\ started' = TRUE
    /\ UNCHANGED <<tick, running>>

\* Any later one moves to the next position of the frame, and its owner runs.
NextTick ==
    /\ started
    /\ tick' = (tick + 1) % FrameLen
    /\ running' = Owner[tick']
    /\ UNCHANGED started

FrameSpec == FrameInit /\ [][FirstTick \/ NextTick]_frameVars
=============================================================================
