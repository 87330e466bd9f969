------------------------------ MODULE Measuring ------------------------------
(***************************************************************************)
(* The size of a picture is asked for by a job of its own: the articles    *)
(* that carry the picture say when it is due, JobQueue works the jobs, one *)
(* request at a time, and what came of it is written to every article that *)
(* carries it.  Articles are in derived.db and jobs in main.db.            *)
(***************************************************************************)
EXTENDS JobQueue

CONSTANTS
    Articles,
    ImageOf,   \* ImageOf[a]: the URL of a's picture, which is the job's key
    Answering  \* the pictures whose host answers with a size now and then

ASSUME MeasuringAssumption == ImageOf \in [Articles -> Keys] /\ Answering \subseteq Keys

VARIABLES
    picture,    \* picture[a]: what the row of a says of its picture
    measuring,  \* what the handler of each worker is at
    dry         \* the last sweep did nothing: there may be more to queue

measureVars == <<queueVars, picture, measuring, dry>>

\* No row; no size, and image_retry_at has come; none, and it has not; a size.
Sizes == {"none", "due", "waits", "sized"}

Carrying(k) == {a \in Articles : ImageOf[a] = k /\ picture[a] # "none"}

\* UnmeasuredImages: one for each URL, however many articles carry it.
Unmeasured(k) == \E a \in Carrying(k) : picture[a] = "due"

MeasuringInit ==
    /\ QueueInit
    /\ picture = [a \in Articles |-> "none"]
    /\ measuring = [w \in Workers |-> "idle"]
    /\ dry = TRUE

(***************************************************************************)
(* The articles.                                                           *)
(***************************************************************************)
\* Mutant of SaveItem: an article that is listed again is written again.
SaveItemAgain(a) ==
    /\ picture' = [picture EXCEPT ![a] = "due"]
    /\ UNCHANGED <<queueVars, measuring, dry>>

\* INSERT OR IGNORE: an article there is already stays as it is.
SaveItem(a) ==
    /\ picture[a] = "none"
    /\ picture' = [picture EXCEPT ![a] = "due"]
    /\ UNCHANGED <<queueVars, measuring, dry>>

PruneItem(a) ==
    /\ picture[a] # "none"
    /\ picture' = [picture EXCEPT ![a] = "none"]
    /\ UNCHANGED <<queueVars, measuring, dry>>

\* Rows of K that wait do so no longer: image_retry_at comes, or an
\* administrator has them offered again.
Offered(K) ==
    /\ picture' = [a \in Articles |->
           IF ImageOf[a] \in K /\ picture[a] = "waits" THEN "due" ELSE picture[a]]
    /\ UNCHANGED <<queueVars, measuring, dry>>

RetryComes(k) == (\E a \in Carrying(k) : picture[a] = "waits") /\ Offered({k})

\* One picture, or all that are without a size for the same reason.
RetryImages(K) == K # {} /\ Offered(K)

(***************************************************************************)
(* The queue.                                                              *)
(***************************************************************************)
\* QueueImageMeasurements, asked for before a sweep when the one before it
\* found nothing to do.
QueueMeasurement(k) ==
    /\ ~sweeping /\ dry /\ Unmeasured(k)
    /\ Enqueue(k)
    /\ UNCHANGED <<picture, measuring, dry>>

JobComesDue(k) == ComesDue(k) /\ UNCHANGED <<picture, measuring, dry>>

SweepBegins == BeginSweep /\ dry' = TRUE /\ UNCHANGED <<picture, measuring>>

SweepEnds == EndSweep /\ UNCHANGED <<picture, measuring, dry>>

\* The handler is given a job, and asks.
Measure(w, k) ==
    /\ Start(w, k)
    /\ measuring' = [measuring EXCEPT ![w] = "asks"]
    /\ UNCHANGED <<picture, dry>>

\* What comes back is a picture that claims a size.
SetImageSize(w) ==
    /\ measuring[w] = "asks"
    /\ picture' = [a \in Articles |-> IF a \in Carrying(running[w]) THEN "sized" ELSE picture[a]]
    /\ measuring' = [measuring EXCEPT ![w] = "done"]
    /\ UNCHANGED <<queueVars, dry>>

\* Mutant of PostponeImage: the flag it used to set, which nothing cleared.
PostponeForGood(w) ==
    /\ measuring[w] = "asks"
    /\ picture' = [a \in Articles |-> IF a \in Carrying(running[w]) THEN "probed" ELSE picture[a]]
    /\ measuring' = [measuring EXCEPT ![w] = "done"]
    /\ UNCHANGED <<queueVars, dry>>

\* Anything else: every article that carries it waits, and a size that is
\* known is left alone.
PostponeImage(w) ==
    /\ measuring[w] = "asks"
    /\ picture' = [a \in Articles |->
           IF a \in Carrying(running[w]) /\ picture[a] # "sized" THEN "waits" ELSE picture[a]]
    /\ measuring' = [measuring EXCEPT ![w] = "done"]
    /\ UNCHANGED <<queueVars, dry>>

\* Either, and derived.db could not be written to.
RecordFails(w) ==
    /\ measuring[w] = "asks"
    /\ measuring' = [measuring EXCEPT ![w] = "failed"]
    /\ UNCHANGED <<queueVars, picture, dry>>

\* A size and a Drop both take the job out of the queue; if the job's own row
\* could not be written it stays.
Measured(w) ==
    /\ \/ measuring[w] = "done" /\ Finish(w)
       \/ measuring[w] = "failed" /\ Fail(w)
    /\ measuring' = [measuring EXCEPT ![w] = "idle"]
    /\ dry' = FALSE
    /\ UNCHANGED picture

MeasuredInVain(w) ==
    /\ measuring[w] \in {"done", "failed"} /\ Leave(w)
    /\ measuring' = [measuring EXCEPT ![w] = "idle"]
    /\ dry' = FALSE
    /\ UNCHANGED picture

StopMeasuring ==
    /\ RestartQueue
    /\ measuring' = [w \in Workers |-> "idle"] /\ dry' = TRUE
    /\ UNCHANGED picture

\* What the handler of w, and the runner after it, go on to do.
Proceeds(w) ==
    \/ SetImageSize(w) \/ PostponeImage(w) \/ RecordFails(w)
    \/ Measured(w) \/ MeasuredInVain(w)

MeasuringNext ==
    \/ \E a \in Articles : SaveItem(a) \/ PruneItem(a)
    \/ \E K \in SUBSET Keys : RetryImages(K)
    \/ \E k \in Keys : RetryComes(k) \/ QueueMeasurement(k) \/ JobComesDue(k)
    \/ SweepBegins \/ SweepEnds \/ StopMeasuring
    \/ \E w \in Workers : Proceeds(w) \/ \E k \in Keys : Measure(w, k)

MeasuringSpec == MeasuringInit /\ [][MeasuringNext]_measureVars

(***************************************************************************)
(* The three seconds' tick comes round and waits run out; the batch takes  *)
(* the oldest jobs first, so that none is passed over for ever; a handler  *)
(* has a timeout and the process is not for ever stopped in the middle.    *)
(***************************************************************************)
MeasuringFairness ==
    /\ WF_measureVars(SweepBegins) /\ WF_measureVars(SweepEnds)
    /\ \A w \in Workers : WF_measureVars(Proceeds(w))
    /\ \A k \in Keys :
           /\ WF_measureVars(RetryComes(k)) /\ WF_measureVars(JobComesDue(k))
           /\ SF_measureVars(SweepBegins /\ k \in handed')
           /\ SF_measureVars(\E w \in Workers : Measure(w, k))
           /\ SF_measureVars(\E w \in Workers : running[w] = k /\ Measured(w))
    /\ \A k \in Answering :
           /\ SF_measureVars(QueueMeasurement(k))
           /\ SF_measureVars(\E w \in Workers : running[w] = k /\ SetImageSize(w))
    /\ \A k \in Keys \ Answering :
           SF_measureVars(\E w \in Workers : running[w] = k /\ (PostponeImage(w) \/ RecordFails(w)))

FairMeasuringSpec == MeasuringSpec /\ MeasuringFairness

(***************************************************************************)
(* Properties.                                                             *)
(***************************************************************************)
\* Queue, articles and handlers; a handler is at something exactly while its
\* worker holds a job.
MeasuringTypeOK ==
    /\ QueueTypeOK
    /\ picture \in [Articles -> Sizes]
    /\ measuring \in [Workers -> {"idle", "asks", "done", "failed"}]
    /\ \A w \in Workers : (measuring[w] = "idle") = (running[w] = None)
    /\ dry \in BOOLEAN

\* "A picture with dimensions": what was measured once is known for as long as
\* the article stays, whatever fails, is listed again or asked again for
\* another article that carries it.
SizeIsKept ==
    [][\A a \in Articles : picture[a] = "sized" => picture'[a] \in {"sized", "none"}]_measureVars

\* "For a while, and not for good": however often it was postponed, dropped or
\* cut short, a picture whose host answers now and then is measured in the end,
\* for every article that carries it by then and stays.
EveryPictureIsMeasured ==
    \A a \in Articles : ImageOf[a] \in Answering =>
        (picture[a] # "none" ~> picture[a] \in {"sized", "none"})
=============================================================================
