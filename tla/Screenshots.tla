---------------------------- MODULE Screenshots ----------------------------
(***************************************************************************)
(* The screenshots auxiliary of the Windows analyzer                       *)
(* (analyzer/windows/modules/auxiliary/screenshots.py).  Screenshots is a  *)
(* Thread: run loops while do_run is set, takes a shot every SHOT_DELAY,   *)
(* skips it when it equals the last uploaded one, and otherwise numbers it *)
(* and uploads it to the host as shots/<n>.jpg.  stop, called from the     *)
(* analyzer's thread, only clears do_run; it does not wait for the loop.   *)
(*                                                                         *)
(* A screen is a model value; Screenshot().equal with SKIP_AREA None is    *)
(* equality.  The JPEG encoding and the chunked send are one upload step,  *)
(* which fails (the socket to the host is gone) when UploadMayFail.        *)
(***************************************************************************)
EXTENDS Integers, Sequences

CONSTANTS
    Screens,        \* the screens Screenshot().take() may return
    HavePil,        \* the values Screenshot().have_pil() may return
    TakeMayFail,    \* whether take() may raise IOError
    UploadMayFail,  \* whether sending to the host may raise
    MaxTakes        \* the shots taken before the analysis ends (a bound)

None == "None"

VARIABLES
    do_run,     \* self.do_run
    pc,         \* where run is
    img_current, img_last, img_counter,   \* run's locals
    shots,      \* the files uploaded to the host, in order: [n, img]
    taken       \* history: the screens take() returned, in order

vars == <<do_run, pc, img_current, img_last, img_counter, shots, taken>>

Init ==
    /\ do_run = TRUE /\ pc = "start"
    /\ img_current = None /\ img_last = None /\ img_counter = 0
    /\ shots = <<>> /\ taken = <<>>

\* stop(): `self.do_run = False`, from the analyzer's thread
Stop ==
    /\ do_run
    /\ do_run' = FALSE
    /\ UNCHANGED <<pc, img_current, img_last, img_counter, shots, taken>>

\* `if not Screenshot().have_pil(): return False`
RunStart ==
    /\ pc = "start"
    /\ \E pil \in HavePil : pc' = IF pil THEN "loop" ELSE "no_pil"
    /\ UNCHANGED <<do_run, img_current, img_last, img_counter, shots, taken>>

\* `while self.do_run:` ... `return True`
LoopTest ==
    /\ pc = "loop"
    /\ pc' = IF do_run THEN "take" ELSE "returned"
    /\ UNCHANGED <<do_run, img_current, img_last, img_counter, shots, taken>>

\* the analysis ends after MaxTakes shots; the one in progress at stop completes
TakesLeft == Len(taken) < MaxTakes + (IF do_run THEN 0 ELSE 1)

\* time.sleep(SHOT_DELAY); img_current = Screenshot().take(), or IOError: continue
Take ==
    /\ pc = "take"
    /\ TakesLeft
    /\ \/ \E s \in Screens : img_current' = s /\ taken' = Append(taken, s) /\ pc' = "compare"
       \/ TakeMayFail /\ pc' = "loop" /\ UNCHANGED <<img_current, taken>>
    /\ UNCHANGED <<do_run, img_last, img_counter, shots>>

\* mutant: the repeated-screen `continue` goes on to the next take, past the while test
CompareSkipsTest ==
    /\ pc = "compare"
    /\ pc' = IF img_last # None /\ img_last = img_current THEN "take" ELSE "upload"
    /\ UNCHANGED <<do_run, img_current, img_last, img_counter, shots, taken>>

\* `if img_last: if Screenshot().equal(img_last, img_current, SKIP_AREA): continue`
Compare ==
    /\ pc = "compare"
    /\ pc' = IF img_last # None /\ img_last = img_current THEN "loop" ELSE "upload"
    /\ UNCHANGED <<do_run, img_current, img_last, img_counter, shots, taken>>

\* mutant: img_last is never updated
UploadNoLast ==
    /\ pc = "upload"
    /\ \/ /\ img_counter' = img_counter + 1
          /\ shots' = Append(shots, [n |-> img_counter + 1, img |-> img_current])
          /\ pc' = "loop" /\ UNCHANGED img_last
       \/ UploadMayFail /\ pc' = "raised" /\ UNCHANGED <<img_counter, shots, img_last>>
    /\ UNCHANGED <<do_run, img_current, taken>>

(***************************************************************************)
(* img_counter += 1, save as JPEG, NetlogFile().init("shots/%04d.jpg"),    *)
(* send every chunk, close, img_last = img_current.  A send on a dead      *)
(* socket raises; nothing in run catches it and the thread ends.          *)
(***************************************************************************)
Upload ==
    /\ pc = "upload"
    /\ \/ /\ img_counter' = img_counter + 1
          /\ shots' = Append(shots, [n |-> img_counter + 1, img |-> img_current])
          /\ img_last' = img_current /\ pc' = "loop"
       \/ UploadMayFail /\ pc' = "raised" /\ UNCHANGED <<img_counter, shots, img_last>>
    /\ UNCHANGED <<do_run, img_current, taken>>

Thread == RunStart \/ LoopTest \/ Take \/ Compare \/ Upload

Ended == pc \in {"no_pil", "returned", "raised"}

\* after stop, once the thread can take no further step, the analysis is over
Rest == ~do_run /\ ~ENABLED Thread /\ UNCHANGED vars

Next == Thread \/ Stop \/ Rest

\* the thread is scheduled; the analyzer's call to stop needs no fairness
Spec == Init /\ [][Next]_vars /\ WF_vars(Thread)

-----------------------------------------------------------------------------
\* reference: the screens with every repeat of the one before removed
RECURSIVE Collapse(_)
Collapse(s) ==
    IF Len(s) < 2 THEN s
    ELSE IF s[1] = s[2] THEN Collapse(Tail(s))
         ELSE <<s[1]>> \o Collapse(Tail(s))

(* Between shots, the uploaded files are numbered 1, 2, ... with no gap    *)
(* and hold exactly the screens take() returned, each run of equal screens *)
(* uploaded once: run compares with the last uploaded shot, skips after an *)
(* IOError, and numbers only what it uploads.                             *)
ShotsMatchReference ==
    pc \in {"loop", "returned"} =>
        /\ \A j \in 1..Len(shots) : shots[j].n = j
        /\ [j \in 1..Len(shots) |-> shots[j].img] = Collapse(taken)

(* Once stop has cleared do_run, run ends: every path through the loop body *)
(* (a failed take, a repeated screen, an upload) returns to the while test. *)
StopEndsRun == ~do_run ~> Ended
=============================================================================
