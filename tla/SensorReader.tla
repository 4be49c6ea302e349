---------------------------- MODULE SensorReader ----------------------------
(***************************************************************************)
(* prodSensorData() and firFilter() of 01_server/driver_handler.c, and     *)
(* load_server_config_internal() of 01_server/config_handler.c: the        *)
(* process that reads the sensor, filters each channel and publishes the   *)
(* result, and reloads config.ini on SIGUSR2, which it also sends itself   *)
(* after each turn.                                                        *)
(*                                                                         *)
(* config.ini may change between two loads, and may be missing.  A sample  *)
(* is kept as the bytes it came in.  A filter call adds the sample times   *)
(* the first coefficient and cells of its buffer times the others: zeros,  *)
(* because every turn clears the buffers, as far as it does.               *)
(***************************************************************************)
EXTENDS Integers, Sequences, FiniteSetsExt

CONSTANTS
    MaxWindow,      \* FIR_WINDOW_MAX_SIZE, 250
    DefaultWindow,  \* FIR_WINDOW_LENGTH_DEFAULT, 10
    NCoeffs,        \* coefficients, 10
    Channels,       \* channels of the sensor, 7
    Files,          \* what config.ini may hold: [window, lines]
    NoWindow,       \* the file has no valid fir_window_length
    FreshBuffer     \* driverBuffer as malloc returns it

VARIABLES
    rpc,            \* where prodSensorData is
    window,         \* fir_window_length
    coeffs,         \* filter_coeffs
    driverBuffer,
    cleared,        \* cells of each channel's buffer cleared this turn
    filtered,       \* channels filtered this turn
    \* history
    irregular,      \* the last file gave one coefficient twice, or one that
                    \* is not in the array
    beyond,         \* a filter call or the clean-up left what was cleared
    async           \* SIGUSR2 came from elsewhere during this turn

readerVars == <<rpc, window, coeffs, driverBuffer, cleared, filtered, irregular,
                beyond, async>>
configVars == <<window, coeffs, irregular>>
turnVars == <<cleared, filtered, beyond, async>>

NoCoeffs == [c \in 1 .. NCoeffs |-> 0]
Indices == [c \in 1 .. NCoeffs |-> c - 1]

Init ==
    /\ rpc = "start"
    /\ window = DefaultWindow
    /\ coeffs = NoCoeffs
    /\ driverBuffer = FreshBuffer
    /\ cleared = 0
    /\ filtered = 0
    /\ irregular = FALSE
    /\ beyond = FALSE
    /\ async = FALSE

-----------------------------------------------------------------------------
(* load_server_config_internal.                                            *)

\* Fault: only a file without any coefficient is replaced.
Complete_Any(lines) == lines # <<>>

\* filter_coeffs_read != 10: lines are counted, not coefficients.
Complete(lines) == Len(lines) = NCoeffs

\* The last line that gives a coefficient counts.  The index is not looked at:
\* a line for none of them writes beside the array, which is not followed
\* further, and counts like the others.
Given(lines, c) == {n \in 1 .. Len(lines) : lines[n][1] = c}

LoadFile(f) ==
    /\ window' = IF f.window = NoWindow THEN DefaultWindow ELSE f.window
    /\ coeffs' = IF Complete(f.lines)
                 THEN [c \in 1 .. NCoeffs |->
                          IF Given(f.lines, c) = {} THEN coeffs[c]
                          ELSE f.lines[Max(Given(f.lines, c))][2]]
                 ELSE Indices
    /\ irregular' = \/ \E n \in 1 .. Len(f.lines) : f.lines[n][1] \notin 1 .. NCoeffs
                    \/ \E n, m \in 1 .. Len(f.lines) :
                          n < m /\ f.lines[n][1] = f.lines[m][1]

\* Without the file the window is reset, and the coefficients stay.
NoFile ==
    /\ window' = DefaultWindow
    /\ UNCHANGED <<coeffs, irregular>>

Load == NoFile \/ \E f \in Files : LoadFile(f)

-----------------------------------------------------------------------------
(* prodSensorData.                                                         *)

\* The server has loaded the configuration, and its child is about to open
\* the driver.
Start ==
    /\ rpc = "start"
    /\ rpc' = "open"
    /\ Load
    /\ UNCHANGED <<driverBuffer, turnVars>>

\* open() fails: my_exit(-40).
OpenFails ==
    /\ rpc = "open"
    /\ rpc' = "gone"
    /\ UNCHANGED <<driverBuffer, configVars, turnVars>>

OpenBegins ==
    /\ rpc = "open"
    /\ rpc' = "opening"
    /\ UNCHANGED <<driverBuffer, configVars, turnVars>>

OpenReturns ==
    /\ rpc = "opening"
    /\ rpc' = "check"
    /\ UNCHANGED <<driverBuffer, configVars, turnVars>>

\* Lines 40-42; a new turn.
Check ==
    /\ rpc = "check"
    /\ rpc' = "clean"
    /\ window' = IF window > MaxWindow THEN MaxWindow ELSE window
    /\ cleared' = 0
    /\ filtered' = 0
    /\ beyond' = FALSE
    /\ async' = FALSE
    /\ UNCHANGED <<driverBuffer, coeffs, irregular>>

\* Lines 45-53.
Clean ==
    /\ rpc = "clean"
    /\ rpc' = "read"
    /\ cleared' = IF window < 0 THEN 0 ELSE window
    /\ beyond' = (beyond \/ window > MaxWindow)
    /\ UNCHANGED <<driverBuffer, configVars, filtered, async>>

\* read(): an error leaves driverBuffer as it is, and is not noticed.
ReadBegins ==
    /\ rpc = "read"
    /\ rpc' = "reading"
    /\ UNCHANGED <<driverBuffer, configVars, turnVars>>

ReadReturns(buffer) ==
    /\ rpc = "reading"
    /\ rpc' = "filter"
    /\ driverBuffer' = buffer
    /\ UNCHANGED <<configVars, turnVars>>

\* firFilter: the cells move up, the first takes the sample, and the sum runs
\* over as many cells and coefficients as the window says.
FirFilter ==
    /\ rpc = "filter"
    /\ filtered' = filtered + 1
    /\ rpc' = IF filtered + 1 = Channels THEN "publish" ELSE "filter"
    /\ beyond' = (beyond \/ (window > 1 /\ window > cleared))
    /\ UNCHANGED <<driverBuffer, configVars, cleared, async>>

\* write_to_shared_memory, the reload and the sleep: kill(driver_pid, SIGUSR2)
\* runs the handler before it returns.  The sample is old now.
Publish(aged) ==
    /\ rpc = "publish"
    /\ rpc' = "check"
    /\ Load
    /\ driverBuffer' = aged
    /\ UNCHANGED turnVars

\* SIGUSR2 from elsewhere.  Outside these places it does no more than the
\* reload at the end of each turn; in read() it is handled when that returns
\* (bound: once in a turn).
Sigusr2 ==
    /\ rpc \in {"clean", "filter"}
    /\ ~async
    /\ Load
    /\ async' = TRUE
    /\ UNCHANGED <<rpc, driverBuffer, cleared, filtered, beyond>>

\* The process ends, outside the driver.
InUserMode == rpc \in {"check", "clean", "read", "filter", "publish"}

Ends ==
    /\ rpc' = "gone"
    /\ window' = DefaultWindow
    /\ coeffs' = NoCoeffs
    /\ irregular' = FALSE
    /\ driverBuffer' = FreshBuffer
    /\ cleared' = 0
    /\ filtered' = 0
    /\ beyond' = FALSE
    /\ async' = FALSE

\* What it does without the driver.
Step == Start \/ Check \/ Clean \/ FirFilter \/ Sigusr2
=============================================================================
