-------------------------------- MODULE Media --------------------------------
(***************************************************************************)
(* Videos, pictures and transcripts (packages/plugin-node/src/services).   *)
(* video.ts and image.ts keep a queue of urls each, whose drain loop works *)
(* on a url while the caller that queued it works on the same url itself;  *)
(* the queue of audio of transcription.ts is fed by every worker on a      *)
(* video without captions.  Pictures are those of the local model; the     *)
(* cloud's are described without a queue.                                  *)
(*                                                                         *)
(* No drain loop is awaited.  An exception that leaves one of them is a    *)
(* rejection nobody handles, which ends the Node process.                  *)
(***************************************************************************)
EXTENDS Naturals, Sequences, FiniteSets

CONSTANTS
    Callers,    \* bound: the calls of processVideo and describeImage
    Videos,     \* urls
    Pictures,   \* urls
    Keys,       \* the ids of YouTube, and "" for the urls without one
    KeyOf,      \* the key of each video in the cache
    Wants,      \* the url each caller asks for
    Broken,     \* urls that cannot be fetched
    MaxStarts   \* bound: starts of the process after the first

Services == {"video", "image"}        \* each with its drain loop
Workers == Callers \cup Services
Urls == Videos \cup Pictures
Free == "free"                        \* no url, and no worker

ASSUME MediaAssumption ==
    /\ Wants \in [Callers -> Urls]
    /\ KeyOf \in [Videos -> Keys]
    /\ Broken \subseteq Urls
    /\ Videos \cap Pictures = {}
    /\ Callers \cap Services = {}
    /\ Free \notin Urls \cup Workers
    /\ MaxStarts \in Nat

VARIABLES
    up,         \* the Node process
    queue,      \* the urls that wait, of each service
    on,         \* the url each drain loop has taken, Free for none
    at,         \* where each worker stands
    audio,      \* TranscriptionService.queue: the workers that wait
    hearing,    \* the worker whose audio is being transcribed, Free for none
    cache,      \* the Media kept under each key: its text, or none
    ready,      \* whether the local model for pictures is loaded
    starts      \* history: starts of the process after the first

mediaVars == <<up, queue, on, at, audio, hearing, cache, ready, starts>>

Texts == {"none", "text", "failed"}   \* "Transcription failed"
Places == {"new", "loading", "polling", "lookup", "fetch", "transcript", "text",
           "failed", "done", "rejected"}

MediaTypeOK ==
    /\ up \in BOOLEAN /\ ready \in BOOLEAN
    /\ queue \in [Services -> Seq(Urls)]
    /\ on \in [Services -> Urls \cup {Free}]
    /\ at \in [Workers -> Places]
    /\ audio \in Seq(Workers)
    /\ hearing \in Workers \cup {Free}
    /\ cache \in [Keys -> Texts]
    /\ starts \in 0 .. MaxStarts

MediaInit ==
    /\ up = TRUE /\ ready = FALSE /\ starts = 0
    /\ queue = [s \in Services |-> <<>>]
    /\ on = [s \in Services |-> Free]
    /\ at = [w \in Workers |-> "new"]
    /\ audio = <<>> /\ hearing = Free
    /\ cache = [k \in Keys |-> "none"]

-----------------------------------------------------------------------------
UrlOf(w) == IF w \in Services THEN on[w] ELSE Wants[w]
ServiceOf(u) == IF u \in Videos THEN "video" ELSE "image"
Queued(u, q) == \E i \in DOMAIN q : q[i] = u

(* There is an entry for the video, its own or that of another video with  *)
(* the same key.  Pictures are not kept.                                   *)
Cached(u) == u \in Videos /\ cache[KeyOf[u]] # "none"

Move(w, to) == at' = [at EXCEPT ![w] = to]

(* The end of the process, and with it of every call under way.            *)
Dies ==
    /\ up' = FALSE /\ ready' = FALSE
    /\ queue' = [s \in Services |-> <<>>]
    /\ on' = [s \in Services |-> Free]
    /\ at' = [w \in Workers |-> IF w \in Services \/ at[w] = "new" THEN "new"
                                ELSE IF at[w] = "done" THEN "done" ELSE "rejected"]
    /\ audio' = <<>> /\ hearing' = Free

(* The worker has its description; a drain loop throws it away and takes   *)
(* the next url, or ends.                                                  *)
Served(w) ==
    IF w \in Callers
    THEN Move(w, "done") /\ UNCHANGED <<queue, on>>
    ELSE LET q == queue[w] IN
         /\ queue' = [queue EXCEPT ![w] = IF q = <<>> THEN q ELSE Tail(q)]
         /\ on' = [on EXCEPT ![w] = IF q = <<>> THEN Free ELSE Head(q)]
         /\ Move(w, IF q = <<>> THEN "new" ELSE "lookup")

(* An exception rejects the caller's promise; that of a drain loop is      *)
(* nobody's.                                                               *)
ThrownStuck(w) ==       \* wrong form
    /\ Move(w, IF w \in Callers THEN "rejected" ELSE "new")
    /\ UNCHANGED <<up, ready, queue, on, audio, hearing>>

ThrownCaught(w) ==       \* wrong form
    /\ IF w \in Callers
       THEN Move(w, "rejected") /\ UNCHANGED <<queue, on>>
       ELSE Served(w)
    /\ UNCHANGED <<up, ready, audio, hearing>>

Thrown(w) ==
    IF w \in Callers
    THEN Move(w, "rejected") /\ UNCHANGED <<up, ready, queue, on, audio, hearing>>
    ELSE Dies

-----------------------------------------------------------------------------
(* The url is queued, an idle drain loop takes it at once, and the caller  *)
(* looks whether it is still there: one step, for nothing is awaited.      *)
Enqueue(r) ==
    LET u == Wants[r]
        s == ServiceOf(u)
        all == Append(queue[s], u)
        q == IF on[s] = Free THEN Tail(all) ELSE all
        place == IF Queued(u, q) THEN "polling" ELSE "lookup"
    IN
    /\ queue' = [queue EXCEPT ![s] = q]
    /\ IF on[s] = Free
       THEN /\ on' = [on EXCEPT ![s] = Head(all)]
            /\ at' = [at EXCEPT ![r] = place, ![s] = "lookup"]
       ELSE Move(r, place) /\ UNCHANGED on
    /\ UNCHANGED <<up, audio, hearing, cache, starts>>

(* A picture asked for before the model is loaded loads it first, whoever  *)
(* else is doing so.                                                       *)
Ask(r) ==
    /\ up /\ at[r] = "new"
    /\ IF Wants[r] \in Pictures /\ ~ready
       THEN Move(r, "loading") /\ UNCHANGED <<up, queue, on, audio, hearing, cache, starts>>
       ELSE Enqueue(r)
    /\ UNCHANGED ready

Load(r) ==
    /\ at[r] = "loading"
    /\ ready' = TRUE
    /\ Enqueue(r)

LoadThrows(r) ==
    /\ at[r] = "loading"
    /\ Thrown(r)
    /\ UNCHANGED <<cache, starts>>

(* Every hundred milliseconds: the url, this caller's or another's, has    *)
(* left the queue.                                                         *)
Poll(r) ==
    /\ at[r] = "polling"
    /\ ~Queued(Wants[r], queue[ServiceOf(Wants[r])])
    /\ Move(r, "lookup")
    /\ UNCHANGED <<up, ready, queue, on, audio, hearing, cache, starts>>

(* processVideoFromUrl looks in the cache, under the id it finds in the    *)
(* url; processImage has none.                                             *)
Hit(w) ==
    /\ at[w] = "lookup" /\ Cached(UrlOf(w))
    /\ Served(w)
    /\ UNCHANGED <<up, ready, audio, hearing, cache, starts>>

Miss(w) ==
    /\ at[w] = "lookup" /\ ~Cached(UrlOf(w))
    /\ Move(w, "fetch")
    /\ UNCHANGED <<up, ready, queue, on, audio, hearing, cache, starts>>

(* The picture and the model, or the video's captions ...                  *)
FindText(w) ==
    /\ at[w] = "fetch" /\ UrlOf(w) \notin Broken
    /\ Move(w, "text")
    /\ UNCHANGED <<up, ready, queue, on, audio, hearing, cache, starts>>

(* ... or its audio, which an idle transcription service takes at once ... *)
SendAudio(w) ==
    /\ at[w] = "fetch" /\ UrlOf(w) \in Videos \ Broken
    /\ Move(w, "transcript")
    /\ IF hearing = Free
       THEN hearing' = w /\ UNCHANGED audio
       ELSE audio' = Append(audio, w) /\ UNCHANGED hearing
    /\ UNCHANGED <<up, ready, queue, on, cache, starts>>

(* ... or an exception.                                                    *)
FetchThrows(w) ==
    /\ at[w] = "fetch"
    /\ Thrown(w)
    /\ UNCHANGED <<cache, starts>>

(* A transcript, or the null of a provider that caught its error; then the *)
(* next audio.                                                             *)
TranscribeOne(text) ==       \* wrong form
    /\ hearing # Free
    /\ Move(hearing, text)
    /\ hearing' = Free
    /\ UNCHANGED <<up, ready, queue, on, audio, cache, starts>>

Transcribe(text) ==
    /\ hearing # Free
    /\ Move(hearing, text)
    /\ hearing' = IF audio = <<>> THEN Free ELSE Head(audio)
    /\ audio' = IF audio = <<>> THEN audio ELSE Tail(audio)
    /\ UNCHANGED <<up, ready, queue, on, cache, starts>>

(* transcribeWithDeepgram does not catch its errors.                       *)
TranscribeThrows ==
    /\ hearing # Free
    /\ Dies
    /\ UNCHANGED <<cache, starts>>

(* A video's Media is cached, over what is there and whatever its text.    *)
Keep(w) ==
    /\ at[w] \in {"text", "failed"}
    /\ cache' = IF UrlOf(w) \in Videos
                THEN [cache EXCEPT ![KeyOf[UrlOf(w)]] = at[w]] ELSE cache
    /\ Served(w)
    /\ UNCHANGED <<up, ready, audio, hearing, starts>>

Restart ==
    /\ ~up /\ starts < MaxStarts
    /\ up' = TRUE /\ starts' = starts + 1
    /\ UNCHANGED <<ready, queue, on, at, audio, hearing, cache>>

-----------------------------------------------------------------------------
Work(w) ==
    \/ w \in Callers /\ (Load(w) \/ LoadThrows(w) \/ Poll(w))
    \/ Hit(w) \/ Miss(w)
    \/ FindText(w) \/ SendAudio(w) \/ FetchThrows(w)
    \/ Keep(w)

Hear == TranscribeThrows \/ \E text \in {"text", "failed"} : Transcribe(text)

MediaNext ==
    \/ \E r \in Callers : Ask(r)
    \/ \E w \in Workers : Work(w)
    \/ Hear
    \/ Restart

(* Timers fire and every download, program and call of a provider settles. *)
Fairness == WF_mediaVars(Hear) /\ \A w \in Workers : WF_mediaVars(Work(w))

MediaSpec == MediaInit /\ [][MediaNext]_mediaVars /\ Fairness

-----------------------------------------------------------------------------
(* A url in a queue has a drain loop at work, audio in the queue has a     *)
(* transcription under way, and the workers that await a transcript are    *)
(* the one that is heard and those in the queue: nothing is left behind by *)
(* an ask that comes as the loop ends, or by a failure.                    *)
NothingLeftBehind ==
    /\ \A s \in Services : queue[s] # <<>> => on[s] # Free
    /\ audio # <<>> => hearing # Free
    /\ \A w \in Workers :
          at[w] = "transcript" <=> w = hearing \/ Queued(w, audio)

(* Every call of processVideo and describeImage comes to its end: with a   *)
(* description, with an error, or with the process.                        *)
EveryAskEnds ==
    \A r \in Callers : (at[r] # "new") ~> (at[r] \in {"done", "rejected"})

(* A url that cannot be fetched ends the process for everybody: its caller *)
(* would get a clean error, but the drain loop meets the same one and      *)
(* nobody handles it there.  The one way out is the Media of another video *)
(* under the same key, which then passes for the one that was asked for:   *)
(* every url in which no id of YouTube is found has the same key.          *)
BrokenUrlEndsProcess ==
    \A r \in Callers : Wants[r] \in Broken =>
        (at[r] = "lookup" ~> ~up \/ Cached(Wants[r]))
=============================================================================
