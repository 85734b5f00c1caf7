------------------------------- MODULE Twitter -------------------------------
(***************************************************************************)
(* The Twitter client (packages/client-twitter/src): the polls that answer *)
(* mentions (interactions.ts), the loop that acts on the timeline          *)
(* (post.ts), the queue of requests they share and what a start stores     *)
(* (base.ts), the thread and the reply (utils.ts).                         *)
(*                                                                         *)
(* A tweet is a number, in the order of posting, as the ids of Twitter     *)
(* are.  What keeps a mention from being answered twice is its row in the  *)
(* memory table, written before the answer is even thought of, and a mark, *)
(* the id last handled, which every poll of the process reads and writes.  *)
(* A poll is not awaited by its timer, so polls overlap; the loop shares   *)
(* only the rows with them.  One turn of a worker at a tweet may post more *)
(* than once: a long answer is cut into several tweets, an action that the *)
(* answer names may answer again, and the loop may both quote and reply.   *)
(* Own posts and the search client, which is off unless configured, are    *)
(* left out.                                                               *)
(***************************************************************************)
EXTENDS Naturals, Sequences, FiniteSets

CONSTANTS
    N,          \* bound: tweets posted by others
    Parent,     \* the tweet that each replies to, 0 for none
    MaxReplies, \* the depth at which buildConversationThread stops
    Polls,      \* bound: the polls
    Loop,       \* the loop of processTweetActions
    MaxAtOnce,  \* bound: workers that may be under way at once
    MaxCrashes, \* bound: ends of the process
    Idle, Pause \* the request queue: not processing; between two requests

Tweets == 1 .. N
Workers == Polls \cup {Loop}

ASSUME TwitterAssumption ==
    /\ {N, MaxReplies, MaxAtOnce, MaxCrashes} \subseteq Nat
    /\ Parent \in [Tweets -> 0 .. N]
    /\ \A t \in Tweets : Parent[t] < t
    /\ Loop \notin Polls
    /\ Idle # Pause /\ {Idle, Pause} \cap Workers = {}

VARIABLES
    newest,     \* the tweets 1 .. newest have been posted
    stored,     \* those with a row in the memory table
    saved,      \* latest_checked_tweet_id in the cache, 0 for none
    up,         \* whether the process has started its clients
    mark,       \* lastCheckedTweetId, 0 for null
    queue,      \* RequestQueue: the workers whose requests wait
    serving,    \* RequestQueue.processing: whose request is with Twitter
    at,         \* where each worker stands
    todo,       \* the tweets that its search gave and it has not passed
    hand,       \* the tweet it works on, 0 for none
    said,       \* whether it has posted in this turn
    due,        \* what the loop has decided on and not tried yet
    answers,    \* history: the turns that posted to each tweet
    rivals,     \* history: tweets two workers had in hand before an answer
    fate,       \* history: what became of each tweet
    crashes     \* history: ends of the process

queueVars == <<queue, serving>>
workVars == <<at, todo, hand, said, due>>
storeVars == <<stored, saved>>
histVars == <<answers, rivals, fate>>
vars == <<newest, up, mark, queueVars, crashes, storeVars, workVars, histVars>>

(* "plan" .. "after": between the lookup that found no row and the end.    *)
Working == {"plan", "store", "write", "send", "after"}
Places == {"off", "search", "next"} \cup Working

(* "settled": answered, or left alone on purpose.  The others are what     *)
(* first stood in the way.                                                 *)
Fates == {"open", "settled", "start", "parent", "failure", "omitted", "crash"}

TypeOK ==
    /\ newest \in 0 .. N
    /\ stored \subseteq Tweets
    /\ saved \in 0 .. N
    /\ up \in BOOLEAN
    /\ mark \in 0 .. N
    /\ queue \in Seq(Workers)
    /\ serving \in Workers \cup {Idle, Pause}
    /\ at \in [Workers -> Places]
    /\ todo \in [Workers -> SUBSET Tweets]
    /\ hand \in [Workers -> 0 .. N]
    /\ said \in [Workers -> BOOLEAN]
    /\ due \in Seq({"quote", "reply"})
    /\ answers \in [Tweets -> Nat]
    /\ rivals \subseteq Tweets
    /\ fate \in [Tweets -> Fates]
    /\ crashes \in 0 .. MaxCrashes

Init ==
    /\ newest = 0 /\ stored = {} /\ saved = 0
    /\ up = FALSE /\ mark = 0 /\ queue = <<>> /\ serving = Idle
    /\ at = [w \in Workers |-> "off"]
    /\ todo = [w \in Workers |-> {}]
    /\ hand = [w \in Workers |-> 0]
    /\ said = [w \in Workers |-> FALSE]
    /\ due = <<>>
    /\ answers = [t \in Tweets |-> 0]
    /\ rivals = {}
    /\ fate = [t \in Tweets |-> "open"]
    /\ crashes = 0

-----------------------------------------------------------------------------
Posted == 1 .. newest

Move(w, to) == at' = [at EXCEPT ![w] = to]

(* What first stood in the way of the tweets S; and that t is settled.     *)
Blamed(S, why) ==
    [t \in Tweets |-> IF t \in S /\ fate[t] = "open" THEN why ELSE fate[t]]
Blame(S, why) == fate' = Blamed(S, why)
Settle(t) == fate' = [fate EXCEPT ![t] = "settled"]

(* The worker is done with t and goes on to the next of its tweets.        *)
Done(w, t) ==
    /\ todo' = [todo EXCEPT ![w] = @ \ {t}]
    /\ hand' = [hand EXCEPT ![w] = 0]
    /\ said' = [said EXCEPT ![w] = FALSE]
    /\ Move(w, "next")
    /\ UNCHANGED due

(* The worker's whole pass is over, whatever tweets it had left.           *)
PassEnds(w) ==
    /\ Move(w, "off")
    /\ todo' = [todo EXCEPT ![w] = {}]
    /\ hand' = [hand EXCEPT ![w] = 0]
    /\ said' = [said EXCEPT ![w] = FALSE]
    /\ due' = IF w = Loop THEN <<>> ELSE due

(* RequestQueue.add: a request is served at once unless others are.        *)
Enqueue(w) ==
    IF serving = Idle
    THEN serving' = w /\ UNCHANGED queue
    ELSE queue' = Append(queue, w) /\ UNCHANGED serving

(* The worker whose post is with Twitter.                                  *)
Sending == {w \in Workers : serving = w /\ at[w] = "send"}

(* The posts of one turn count as one answer.                              *)
AnswersWith(w) ==
    [answers EXCEPT ![hand[w]] = IF said[w] THEN @ ELSE @ + 1]

MayStart(w) ==
    /\ up /\ at[w] = "off"
    /\ Cardinality({v \in Workers : at[v] # "off"}) < MaxAtOnce

-----------------------------------------------------------------------------
(* The world.                                                              *)
Post ==
    /\ newest < N
    /\ newest' = newest + 1
    /\ UNCHANGED <<up, mark, queueVars, crashes, storeVars, workVars, histVars>>

(* The process ends with all it keeps in memory; the post it was sending   *)
(* may have reached Twitter.  A tweet that was in hand and has its row     *)
(* will not be looked at again.                                            *)
Crash ==
    /\ up /\ crashes < MaxCrashes
    /\ crashes' = crashes + 1
    /\ up' = FALSE /\ mark' = 0 /\ queue' = <<>> /\ serving' = Idle
    /\ at' = [w \in Workers |-> "off"]
    /\ todo' = [w \in Workers |-> {}]
    /\ hand' = [w \in Workers |-> 0]
    /\ said' = [w \in Workers |-> FALSE]
    /\ due' = <<>>
    /\ answers' = answers \/ \E w \in Sending : answers' = AnswersWith(w)
    /\ Blame({hand[w] : w \in Workers} \cap stored, "crash")
    /\ UNCHANGED <<newest, storeVars, rivals>>

(* init and start: the mark is read back, and populateTimeline gives rows  *)
(* to recent tweets of the timeline and to recent mentions.                *)
Start(recent) ==
    /\ ~up
    /\ up' = TRUE
    /\ mark' = saved
    /\ stored' = stored \cup recent
    /\ Blame(recent \ stored, "start")
    /\ UNCHANGED <<newest, saved, queueVars, crashes, workVars, answers, rivals>>

(* processQueue after a request and its random delay: the next one, or     *)
(* none and it returns.  Its retry waits for an exception of a request,    *)
(* which the request's own wrapper has caught.                             *)
QueueGoesOn ==
    /\ serving = Pause
    /\ IF queue = <<>>
       THEN serving' = Idle /\ UNCHANGED queue
       ELSE serving' = Head(queue) /\ queue' = Tail(queue)
    /\ UNCHANGED <<newest, up, mark, crashes, storeVars, workVars, histVars>>

-----------------------------------------------------------------------------
(* A timer starts a poll whatever the others do; its search waits for its  *)
(* turn.                                                                   *)
PollStarts(w) ==
    /\ w \in Polls /\ MayStart(w)
    /\ Move(w, "search")
    /\ Enqueue(w)
    /\ UNCHANGED <<newest, up, mark, crashes, storeVars, todo, hand, said, due, histVars>>

(* The search is served, with the tweets of target users added: some of    *)
(* what was posted, none after an error or fifteen seconds.                *)
SearchServed(w, tweets) ==
    /\ serving = w /\ at[w] = "search"
    /\ serving' = Pause
    /\ todo' = [todo EXCEPT ![w] = tweets]
    /\ Move(w, "next")
    /\ UNCHANGED <<newest, up, mark, queue, crashes, storeVars, hand, said, due, histVars>>

(* fetchTimelineForActions does not use the queue.                         *)
LoopStarts(tweets) ==
    /\ MayStart(Loop)
    /\ todo' = [todo EXCEPT ![Loop] = tweets]
    /\ Move(Loop, "next")
    /\ UNCHANGED <<newest, up, mark, queueVars, crashes, storeVars, hand, said, due, histVars>>

(* The order of the tweets: a poll sorted them by id, the loop takes them  *)
(* as the timeline gave them.                                              *)
TurnNewestFirst(w, t) ==       \* wrong form
    /\ at[w] = "next"
    /\ t \in todo[w]
    /\ w \in Polls => \A u \in todo[w] : t >= u

Turn(w, t) ==
    /\ at[w] = "next"
    /\ t \in todo[w]
    /\ w \in Polls => \A u \in todo[w] : t <= u

(* A tweet the mark has passed (polls only) or that has a row is skipped.  *)
Skip(w, t) ==
    /\ Turn(w, t)
    /\ t \in stored \/ (w \in Polls /\ t <= mark)
    /\ Done(w, t)
    /\ UNCHANGED <<newest, up, mark, queueVars, crashes, storeVars, histVars>>

(* No row: the tweet is taken in hand, whoever else has it.                *)
TakeUp(w, t) ==
    /\ Turn(w, t)
    /\ t \notin stored
    /\ w \in Polls => t > mark
    /\ hand' = [hand EXCEPT ![w] = t]
    /\ Move(w, IF w = Loop THEN "plan" ELSE "store")
    /\ rivals' = rivals \cup {u \in {t} : \E v \in Workers : hand[v] = u}
    /\ UNCHANGED <<newest, up, mark, queueVars, crashes, storeVars, todo, said, due,
                   answers, fate>>

(* generateTweetActions: nothing, which leaves no trace; a like or a       *)
(* retweet only, with a row of the loop's own; or a quote, a reply or      *)
(* first the one and then the other.                                       *)
PlanNothing ==
    /\ at[Loop] = "plan"
    /\ Done(Loop, hand[Loop])
    /\ UNCHANGED <<newest, up, mark, queueVars, crashes, storeVars, histVars>>

PlanQuiet ==
    /\ at[Loop] = "plan"
    /\ Done(Loop, hand[Loop])
    /\ stored' = stored \cup {hand[Loop]}
    /\ Settle(hand[Loop])
    /\ UNCHANGED <<newest, up, mark, queueVars, crashes, saved, answers, rivals>>

Plans == {<<"quote">>, <<"reply">>, <<"quote", "reply">>}

Plan(plan) ==
    /\ at[Loop] = "plan"
    /\ due' = plan
    /\ Move(Loop, "store")
    /\ UNCHANGED <<newest, up, mark, queueVars, crashes, storeVars, todo, hand, said, histVars>>

(* buildConversationThread gives rows to the tweet and to those it replies *)
(* to, until one cannot be fetched or the thread is deep enough.           *)
Lines(t) ==
    {A \in SUBSET Tweets :
        /\ Cardinality(A) < MaxReplies
        /\ \A a \in A : a = Parent[t] \/ \E b \in A : a = Parent[b]}

StoreThreadOfParents(w, parents) ==       \* wrong form
    /\ stored' = stored \cup parents
    /\ Blame(parents \ stored, "parent")
    /\ Move(w, "write")
    /\ UNCHANGED <<newest, up, mark, queueVars, crashes, saved, todo, hand, said, due,
                   answers, rivals>>

StoreThread(w, parents) ==
    /\ stored' = stored \cup {hand[w]} \cup parents
    /\ Blame(parents \ stored, "parent")
    /\ Move(w, "write")
    /\ UNCHANGED <<newest, up, mark, queueVars, crashes, saved, todo, hand, said, due,
                   answers, rivals>>

(* The first of an answer's posts, or the loop's quote or reply ...        *)
Respond(w) ==
    /\ at[w] = "write"
    /\ Move(w, "send")
    /\ Enqueue(w)
    /\ UNCHANGED <<newest, up, mark, crashes, storeVars, todo, hand, said, due, histVars>>

(* ... and a further one of a poll: the next piece of a long answer, or    *)
(* what an action posts through the callback that processActions is given. *)
PostMore(w) ==
    /\ w \in Polls /\ at[w] = "after"
    /\ Move(w, "send")
    /\ Enqueue(w)
    /\ UNCHANGED <<newest, up, mark, crashes, storeVars, todo, hand, said, due, histVars>>

(* A call of the database or the model throws: it ends a poll, the mark    *)
(* not saved, and costs the loop this tweet ...                            *)
CallThrows(w) ==
    /\ at[w] \in (IF w = Loop THEN {"plan", "after"} ELSE {"store", "write"})
    /\ Blame({hand[w]} \cap stored, "failure")
    /\ IF w = Loop THEN Done(w, hand[w]) ELSE PassEnds(w)
    /\ UNCHANGED <<newest, up, mark, queueVars, crashes, storeVars, answers, rivals>>

(* ... or, where the loop catches it, what it was trying.                  *)
Tried(w) ==
    /\ Move(w, IF w = Loop /\ Len(due) > 1 THEN "store" ELSE "after")
    /\ due' = IF w = Loop THEN Tail(due) ELSE due

AttemptFails ==
    /\ at[Loop] \in {"store", "write"}
    /\ Tried(Loop)
    /\ Blame({hand[Loop]} \cap stored, "failure")
    /\ UNCHANGED <<newest, up, mark, queueVars, crashes, storeVars, todo, hand, said,
                   answers, rivals>>

(* A quote with no content returns from processTweetActions.               *)
QuoteIsEmpty ==
    /\ at[Loop] = "write" /\ Head(due) = "quote"
    /\ PassEnds(Loop)
    /\ Blame({hand[Loop]}, "failure")
    /\ UNCHANGED <<newest, up, mark, queueVars, crashes, storeVars, answers, rivals>>

(* The tweet in hand is done with.  A poll sets the mark to its id, higher *)
(* or lower; older tweets that its search did not give are behind the mark *)
(* from here on.                                                           *)
Behind(w) ==
    {u \in Posted : u < hand[w]} \ (todo[w] \cup stored)

Finish(w) ==
    /\ w \in Polls
    /\ mark' = hand[w]
    /\ Done(w, hand[w])

(* The tweet is left alone: generateShouldRespond said so, it is our own,  *)
(* or the response has no text; or a picture for it cannot be fetched.     *)
LeaveAlone(w, why) ==
    /\ at[w] = "write"
    /\ Finish(w)
    /\ fate' = [Blamed(Behind(w), "omitted") EXCEPT ![hand[w]] = why]
    /\ UNCHANGED <<newest, up, queueVars, crashes, storeVars, answers, rivals>>

(* A post is served; an error of sendTweet is caught, and the worker goes  *)
(* on as after a post.                                                     *)
ReplyServedKept(w) ==       \* wrong form
    /\ w \in Sending
    /\ serving' = Pause /\ queue' = <<w>> \o queue
    /\ Tried(w)
    /\ UNCHANGED <<newest, up, mark, crashes, storeVars, todo, hand, rivals>>

ReplyServed(w) ==
    /\ w \in Sending
    /\ serving' = Pause /\ UNCHANGED queue
    /\ Tried(w)
    /\ UNCHANGED <<newest, up, mark, crashes, storeVars, todo, hand, rivals>>

Reaches(w) ==
    /\ answers' = AnswersWith(w)
    /\ said' = [said EXCEPT ![w] = TRUE]

ReplyPosted(w) ==
    /\ ReplyServed(w)
    /\ Reaches(w)
    /\ Settle(hand[w])

(* An error may hide a post that Twitter took.                             *)
ReplyFails(w) ==
    /\ ReplyServed(w)
    /\ Reaches(w) \/ UNCHANGED <<answers, said>>
    /\ Blame({hand[w]}, "failure")

(* The end of a turn: a poll's, with its mark ...                          *)
TurnEnds(w) ==
    /\ at[w] = "after"
    /\ Finish(w)
    /\ Blame(Behind(w), "omitted")
    /\ UNCHANGED <<newest, up, queueVars, crashes, storeVars, answers, rivals>>

(* ... and the loop's, with a row of its own if the tweet has none yet.    *)
LoopStoresRow ==
    /\ at[Loop] = "after"
    /\ stored' = stored \cup {hand[Loop]}
    /\ Blame({hand[Loop]}, "failure")
    /\ Done(Loop, hand[Loop])
    /\ UNCHANGED <<newest, up, mark, queueVars, crashes, saved, answers, rivals>>

(* All passed: a poll saves the mark, whoever set it, well or badly.       *)
SaveMark(w, ok) ==
    /\ w \in Polls /\ at[w] = "next" /\ todo[w] = {}
    /\ saved' = IF ok /\ mark # 0 THEN mark ELSE saved
    /\ Move(w, "off")
    /\ UNCHANGED <<newest, up, mark, queueVars, crashes, stored, todo, hand, said, due,
                   histVars>>

LoopRests ==
    /\ at[Loop] = "next" /\ todo[Loop] = {}
    /\ Move(Loop, "off")
    /\ UNCHANGED <<newest, up, mark, queueVars, crashes, storeVars, todo, hand, said, due,
                   histVars>>

-----------------------------------------------------------------------------
Step(w) ==
    \/ \E tweets \in SUBSET Posted : SearchServed(w, tweets)
    \/ \E t \in Tweets : Skip(w, t) \/ TakeUp(w, t)
    \/ at[w] = "store" /\ \E parents \in Lines(hand[w]) : StoreThread(w, parents)
    \/ \E why \in {"settled", "failure"} : LeaveAlone(w, why)
    \/ Respond(w) \/ PostMore(w)
    \/ CallThrows(w)
    \/ ReplyPosted(w) \/ ReplyFails(w)
    \/ TurnEnds(w)
    \/ \E ok \in BOOLEAN : SaveMark(w, ok)

LoopStep ==
    \/ \E tweets \in SUBSET Posted : LoopStarts(tweets)
    \/ PlanNothing \/ PlanQuiet
    \/ \E plan \in Plans : Plan(plan)
    \/ AttemptFails \/ QuoteIsEmpty
    \/ LoopStoresRow \/ LoopRests

Next ==
    \/ Post
    \/ Crash
    \/ \E recent \in SUBSET Posted : Start(recent)
    \/ QueueGoesOn
    \/ \E w \in Polls : PollStarts(w)
    \/ \E w \in Workers : Step(w)
    \/ LoopStep

Spec == Init /\ [][Next]_vars

-----------------------------------------------------------------------------
(* A turn may post several times (an answer in pieces, an action's answer, *)
(* a quote and a reply).  That two turns answer one mention takes a race:  *)
(* two workers took it up side by side, each finding no row before either  *)
(* answered.  It never comes of one poll after another, nor of the process *)
(* ending between an answer and the saving of the mark.                    *)
AnsweredTwiceNeedsRace ==
    \A t \in Tweets : answers[t] > 1 => t \in rivals

(* No mention is dropped in silence.  Once it has a row or the mark has    *)
(* passed it no poll will take it up; if nobody has answered it, decided   *)
(* not to, or has it in hand, one of five things happened to it.           *)
InHand(t) == \E w \in Workers : hand[w] = t
DroppedHasCause ==
    \A t \in Posted :
        t \in stored \/ t <= mark =>
            InHand(t) \/ fate[t] # "open"

(* Whatever is served, fails or ends, a worker that waits for a request    *)
(* has it served or in the queue, once, and nobody else has; and while one *)
(* is in the queue, processQueue runs.  So no worker waits for ever behind *)
(* a request that nobody will take, and none is served twice.              *)
WaitersAreQueued ==
    /\ \A w \in Workers :
        at[w] \in {"search", "send"} <=> serving = w \/ \E i \in DOMAIN queue : queue[i] = w
    /\ \A i \in DOMAIN queue : queue[i] # serving
    /\ \A i, j \in DOMAIN queue : queue[i] = queue[j] => i = j
    /\ queue # <<>> => serving # Idle
=============================================================================
