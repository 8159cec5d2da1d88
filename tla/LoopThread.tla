----------------------------- MODULE LoopThread -----------------------------
(***************************************************************************)
(* core/loop_thread.cpp with Loop::init, loop and quit of core/loop.cpp:   *)
(* a thread that sets its loop up, reports to run(), serves its loop and   *)
(* ends when stop() breaks the loop from outside. The wake-up goes through *)
(* ev_async of libev (open_source/ev.c), whose sender skips the write to   *)
(* the eventfd unless the loop is about to block; it is modelled one       *)
(* shared-memory access at a time, the fences of ev.c making the accesses  *)
(* sequentially consistent. run() and stop() are called by one thread, the *)
(* owner, as everywhere in the program.                                    *)
(***************************************************************************)
EXTENDS Naturals

VARIABLES
  owner,      \* where run() and stop() are: "start", "run", "up", "failed",
              \* "flag", "skip", "ask", "unskip", "write", "join", "stopped"
  at,         \* where process() is: "unborn", "init", "prepare", "publish",
              \* "report", "enter", "want", "look", "poll", "unwant", "feed",
              \* "pipe", "clear", "async", "sent", "test", "end", "gone"
  good,       \* what prepare() returned
  created,    \* the promise _created: "unset", "true", "false", "exception"
  known,      \* LoopThread::_loop is set
  ended,      \* process_end has been called
  sent,       \* _async.sent
  async_pending, pipe_write_skipped, pipe_write_wanted,
  pipe,       \* the eventfd of the loop is readable
  block,      \* backend_poll may block
  woken,      \* the watcher of the eventfd is pending
  loop_done   \* ev_break has been called

handshake == <<owner, good, created, known, ended>>
wake      == <<sent, async_pending, pipe_write_skipped, pipe_write_wanted, pipe>>
run       == <<block, woken, loop_done>>
ThreadVars == <<handshake, wake, run, at>>

ThreadInit ==
  /\ owner = "start" /\ at = "unborn" /\ good = FALSE /\ created = "unset"
  /\ known = FALSE /\ ended = FALSE
  /\ sent = FALSE /\ async_pending = FALSE /\ pipe_write_skipped = FALSE
  /\ pipe_write_wanted = FALSE /\ pipe = FALSE
  /\ block = FALSE /\ woken = FALSE /\ loop_done = FALSE

-----------------------------------------------------------------------------
(* The owner: run(). *)

Run ==
  /\ owner = "start"
  /\ owner' = "run" /\ at' = "init"
  /\ UNCHANGED <<good, created, known, ended, wake, run>>

\* fut.get(). An exception leaves run(), and nobody calls stop() after that.
RunReturns ==
  /\ owner = "run" /\ created # "unset"
  /\ owner' = IF created = "exception" THEN "failed" ELSE "up"
  /\ UNCHANGED <<good, created, known, ended, wake, run, at>>

(* stop(): quit() is ev_async_send, step by step, then join. *)

\* Defect: quit calls ev_break from the owner's thread.
StopBreaks ==
  /\ owner \in {"up", "stopped"}
  /\ loop_done' = (loop_done \/ known) /\ owner' = "join"
  /\ UNCHANGED <<good, created, known, ended, wake, block, woken, at>>

\* w->sent = 1, when _loop is set. stop() may be called again later.
Stop ==
  /\ owner \in {"up", "stopped"}
  /\ IF known THEN sent' = TRUE /\ owner' = "flag"
              ELSE UNCHANGED sent /\ owner' = "join"
  /\ UNCHANGED <<good, created, known, ended, async_pending, pipe_write_skipped,
                 pipe_write_wanted, pipe, run, at>>

\* if (*flag) return; *flag = 1
SendFlag ==
  /\ owner = "flag"
  /\ owner' = IF async_pending THEN "join" ELSE "skip"
  /\ async_pending' = TRUE
  /\ UNCHANGED <<good, created, known, ended, sent, pipe_write_skipped,
                 pipe_write_wanted, pipe, run, at>>

SendSkip ==
  /\ owner = "skip"
  /\ pipe_write_skipped' = TRUE /\ owner' = "ask"
  /\ UNCHANGED <<good, created, known, ended, sent, async_pending,
                 pipe_write_wanted, pipe, run, at>>

SendAsk ==
  /\ owner = "ask"
  /\ owner' = IF pipe_write_wanted THEN "unskip" ELSE "join"
  /\ UNCHANGED <<good, created, known, ended, wake, run, at>>

SendUnskip ==
  /\ owner = "unskip"
  /\ pipe_write_skipped' = FALSE /\ owner' = "write"
  /\ UNCHANGED <<good, created, known, ended, sent, async_pending,
                 pipe_write_wanted, pipe, run, at>>

SendWrite ==
  /\ owner = "write"
  /\ pipe' = TRUE /\ owner' = "join"
  /\ UNCHANGED <<good, created, known, ended, sent, async_pending,
                 pipe_write_skipped, pipe_write_wanted, run, at>>

Join ==
  /\ owner = "join" /\ at = "gone"
  /\ owner' = "stopped"
  /\ UNCHANGED <<good, created, known, ended, wake, run, at>>

-----------------------------------------------------------------------------
(* The thread: process(). *)

\* Loop::init, which succeeds or throws.
LoopInit ==
  /\ at = "init"
  /\ \/ at' = "prepare" /\ UNCHANGED created
     \/ at' = "gone" /\ created' = "exception"
  /\ UNCHANGED <<owner, good, known, ended, wake, run>>

\* Defect: an exception ends the thread without a word.
PrepareSilent ==
  /\ at = "prepare"
  /\ \/ at' = "publish" /\ good' \in BOOLEAN
     \/ at' = "gone" /\ UNCHANGED good
  /\ UNCHANGED <<owner, created, known, ended, wake, run>>

\* prepare() of the derived class returns true or false, or throws.
Prepare ==
  /\ at = "prepare"
  /\ \/ at' = "publish" /\ good' \in BOOLEAN /\ UNCHANGED created
     \/ at' = "gone" /\ created' = "exception" /\ UNCHANGED good
  /\ UNCHANGED <<owner, known, ended, wake, run>>

\* _loop = get_local_loop()
Publish ==
  /\ at = "publish"
  /\ known' = TRUE /\ at' = "report"
  /\ UNCHANGED <<owner, good, created, ended, wake, run>>

\* _created.set_value(ret)
Report ==
  /\ at = "report"
  /\ created' = (IF good THEN "true" ELSE "false")
  /\ at' = IF good THEN "enter" ELSE "gone"
  /\ UNCHANGED <<owner, good, known, ended, wake, run>>

\* ev_run forgets an earlier ev_break.
Enter ==
  /\ at = "enter"
  /\ loop_done' = FALSE /\ at' = "want"
  /\ UNCHANGED <<handshake, wake, block, woken>>

\* Defect: the loop does not ask for wake-up writes.
WantForgotten ==
  /\ at = "want"
  /\ at' = "look"
  /\ UNCHANGED <<handshake, wake, run>>

\* pipe_write_wanted = 1
Want ==
  /\ at = "want"
  /\ pipe_write_wanted' = TRUE /\ at' = "look"
  /\ UNCHANGED <<handshake, sent, async_pending, pipe_write_skipped, pipe, run>>

\* A skipped write means: do not block.
Look ==
  /\ at = "look"
  /\ block' = ~ pipe_write_skipped /\ at' = "poll"
  /\ UNCHANGED <<handshake, wake, woken, loop_done>>

\* backend_poll reports the eventfd, or other descriptors, or both.
Poll(other) ==
  /\ at = "poll"
  /\ ~ block \/ pipe \/ other
  /\ woken' = pipe /\ at' = "unwant"
  /\ UNCHANGED <<handshake, wake, block, loop_done>>

Unwant ==
  /\ at = "unwant"
  /\ pipe_write_wanted' = FALSE /\ at' = "feed"
  /\ UNCHANGED <<handshake, sent, async_pending, pipe_write_skipped, pipe, run>>

\* A write that was skipped meanwhile counts as a wake-up too. The callbacks
\* of other descriptors (Loop) run here.
Feed ==
  /\ at = "feed"
  /\ at' = IF woken \/ pipe_write_skipped THEN "pipe" ELSE "test"
  /\ UNCHANGED <<handshake, wake, run>>

(* pipecb *)

\* The eventfd is read when the poll has reported it.
PipeRead ==
  /\ at = "pipe"
  /\ pipe' = (pipe /\ ~ woken) /\ woken' = FALSE /\ at' = "clear"
  /\ UNCHANGED <<handshake, sent, async_pending, pipe_write_skipped, pipe_write_wanted,
                 block, loop_done>>

PipeClear ==
  /\ at = "clear"
  /\ pipe_write_skipped' = FALSE /\ at' = "async"
  /\ UNCHANGED <<handshake, sent, async_pending, pipe_write_wanted, pipe, run>>

PipeAsync ==
  /\ at = "async"
  /\ at' = IF async_pending THEN "sent" ELSE "test"
  /\ async_pending' = FALSE
  /\ UNCHANGED <<handshake, sent, pipe_write_skipped, pipe_write_wanted, pipe, run>>

\* Feeds the async watcher; ev_async_cb calls ev_break.
PipeSent ==
  /\ at = "sent"
  /\ loop_done' = (loop_done \/ sent) /\ sent' = FALSE /\ at' = "test"
  /\ UNCHANGED <<handshake, async_pending, pipe_write_skipped, pipe_write_wanted, pipe,
                 block, woken>>

Test ==
  /\ at = "test"
  /\ at' = IF loop_done THEN "end" ELSE "want"
  /\ UNCHANGED <<handshake, wake, run>>

\* process_end(), and the thread ends.
End ==
  /\ at = "end"
  /\ ended' = TRUE /\ at' = "gone"
  /\ UNCHANGED <<owner, good, created, known, wake, run>>

-----------------------------------------------------------------------------
Owner == RunReturns \/ SendFlag \/ SendSkip \/ SendAsk \/ SendUnskip \/ SendWrite \/ Join

Thread ==
  \/ LoopInit \/ Prepare \/ Publish \/ Report \/ Enter
  \/ Want \/ Look \/ Poll(FALSE) \/ Unwant \/ Feed
  \/ PipeRead \/ PipeClear \/ PipeAsync \/ PipeSent \/ Test \/ End

ThreadNext == Run \/ Stop \/ Owner \/ Thread \/ Poll(TRUE)

\* Both threads are scheduled; that another descriptor ever wakes the loop is
\* not assumed, nor that stop() is called.
ThreadSpec == ThreadInit /\ [][ThreadNext]_ThreadVars /\ WF_ThreadVars(Owner) /\ WF_ThreadVars(Thread)

-----------------------------------------------------------------------------
Before == {"unborn", "init", "prepare", "publish", "report"}
Inside == {"enter", "want", "look", "poll", "unwant", "feed", "pipe", "clear",
           "async", "sent", "test"}

\* The promise is unset until the thread has set its loop up, and run() goes
\* on only after that.
ThreadTypeOK ==
  /\ owner \in {"start", "run", "up", "failed", "flag", "skip", "ask", "unskip",
                "write", "join", "stopped"}
  /\ at \in Before \cup Inside \cup {"end", "gone"}
  /\ created \in {"unset", "true", "false", "exception"}
  /\ {good, known, ended, sent, async_pending, pipe_write_skipped,
      pipe_write_wanted, pipe, block, woken, loop_done} \subseteq BOOLEAN
  /\ at \in Before => created = "unset"
  /\ owner \notin {"start", "run"} => created # "unset"

\* A quit that has been sent is on its way: while stop() waits in join and the
\* thread has not left its loop, the loop cannot fall asleep.
QuitOnItsWay ==
  owner = "join" /\ at \in Inside =>
    \/ loop_done
    \/ at = "sent" /\ sent
    \/ /\ sent /\ async_pending
       /\ pipe \/ pipe_write_skipped \/ woken \/ at \in {"pipe", "clear", "async"}
       /\ at = "poll" => ~ block \/ pipe

\* stop() returns, whenever it is called after run(), also before the thread
\* has reached ev_run.
StopReturns == owner \in {"flag", "join"} ~> owner = "stopped"

\* run() returns or throws.
RunCompletes == owner = "run" ~> owner \in {"up", "failed"}

=============================================================================
