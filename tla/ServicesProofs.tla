--------------------------- MODULE ServicesProofs ---------------------------
(***************************************************************************)
(* The services that count: mail and uploads, which retry up to a limit,   *)
(* and the limiter of requests, for any limits.                            *)
(***************************************************************************)
EXTENDS MailTransport, UploadStorage, RateLimiter, Induction

-----------------------------------------------------------------------------
(* Mail: a message is accepted at most once *)

MailCalls == {"connect", "starttls", "login", "send", "quit", "decide",
              "sent", "failed"}

MailType ==
    /\ smtp \in [starttls : BOOLEAN, credentials : BOOLEAN]
    /\ delivery \in [attempt : Nat, call : MailCalls,
                     error : Errors \cup {"ok"}]
    /\ accepted \in {0, 1}

\* What MailAcceptedOnce rests on: up to send_message the message was not
\* accepted, and only "ok" or no answer leave it possible that it was.
AcceptedIfNoError ==
    /\ delivery.call \in {"connect", "starttls", "login", "send"} =>
          accepted = 0
    /\ delivery.call \in {"quit", "decide"} =>
          /\ delivery.error = "ok" => accepted = 1
          /\ delivery.error \notin {"ok", "none"} => accepted = 0
    /\ delivery.call = "sent" => accepted = 1

MailInv == MailType /\ AcceptedIfNoError

-----------------------------------------------------------------------------
\* Initially no attempt was made.
LEMMA MailInitInv == MailInit => MailInv
  BY DEF MailInit, MailInv, MailType, AcceptedIfNoError, MailCalls, Errors

LEMMA NextCallType ==
    ASSUME NEW c PROVE NextCall(c) \in {"starttls", "login", "send"}
  BY DEF NextCall

LEMMA MailStep ==
    ASSUME MailInv, [MailNext]_mailVars
    PROVE  MailInv'
<1> USE DEF MailInv, MailType, AcceptedIfNoError
<1>1. CASE CallSucceeds
  <2>1. delivery.call \in {"connect", "starttls", "login"}
        /\ delivery' = [delivery EXCEPT !.call = NextCall(delivery.call)]
        /\ UNCHANGED <<smtp, accepted>>
    BY <1>1 DEF CallSucceeds
  <2>2. NextCall(delivery.call) \in {"starttls", "login", "send"}
    BY NextCallType
  <2>q. QED BY <2>1, <2>2 DEF MailCalls
<1>2. CASE CallFails
  BY <1>2 DEF CallFails, MailCalls, Errors
<1>3. CASE SendMessage
  <2>1. delivery.call = "send" /\ accepted = 0 /\ smtp' = smtp
    BY <1>3 DEF SendMessage, Calling
  <2>2. PICK error \in Errors \cup {"ok"} :
           /\ delivery' = [delivery EXCEPT !.error = error, !.call = "quit"]
           /\ \E taken \in {error = "ok"} \cup {error \in {"ok", "none"}} :
                 accepted' = IF taken THEN accepted + 1 ELSE accepted
    BY <1>3 DEF SendMessage
  <2>3. /\ error = "ok" => accepted' = 1
        /\ error \notin {"ok", "none"} => accepted' = 0
        /\ accepted' \in {0, 1}
    <3>1. PICK taken \in {error = "ok"} \cup {error \in {"ok", "none"}} :
             accepted' = IF taken THEN accepted + 1 ELSE accepted
      BY <2>2
    <3>2. CASE error = "ok"
      <4>1. taken = TRUE
        BY <3>1, <3>2, Zenon
      <4>q. QED BY <2>1, <3>1, <3>2, <4>1
    <3>3. CASE error = "none"
      <4>1. taken = TRUE \/ taken = FALSE
        BY <3>1, <3>3, Zenon
      <4>q. QED BY <2>1, <3>1, <3>3, <4>1
    <3>4. CASE error \notin {"ok", "none"}
      <4>1. taken = FALSE
        BY <3>1, <3>4, Zenon
      <4>q. QED BY <2>1, <3>1, <3>4, <4>1
    <3>q. QED BY <3>2, <3>3, <3>4
  <2>4. /\ delivery' \in [attempt : Nat, call : MailCalls,
                          error : Errors \cup {"ok"}]
        /\ delivery'.call = "quit" /\ delivery'.error = error
    BY <2>2 DEF MailCalls
  <2>q. QED BY <2>1, <2>3, <2>4
<1>4. CASE Quit
  BY <1>4 DEF Quit, Calling, MailCalls
<1>5. CASE Conclude
  BY <1>5 DEF Conclude, Calling, MailCalls
<1>6. CASE TryAgain
  BY <1>6 DEF TryAgain, Calling, IsTransient, MailCalls
<1>7. CASE UNCHANGED mailVars
  BY <1>7 DEF mailVars
<1>q. QED
  BY <1>1, <1>2, <1>3, <1>4, <1>5, <1>6, <1>7 DEF MailNext

\* Whatever fails and is tried again, the server takes the message at most
\* once, for any number of attempts, and it has taken it when the caller is
\* told that it was sent.
THEOREM MailAcceptedOnceHolds == MailSpec => []MailAcceptedOnce
<1>1. MailInv => MailAcceptedOnce
  BY DEF MailInv, MailType, AcceptedIfNoError, MailAcceptedOnce, Calling
<1>q. QED BY MailInitInv, MailStep, <1>1, PTL DEF MailSpec

-----------------------------------------------------------------------------
(* Uploads: a draft points to a whole object *)

ThreadCalls == {"none", "put", "stat"} \cup Results

UploadType ==
    /\ upload \in {"read", "wait", "commit", "201", "500", "503", "none"}
    /\ thread \in [call : ThreadCalls, attempt : Nat]
    /\ nanoRow \in BOOLEAN

\* What RowHasObject rests on: once the thread returned the key nothing
\* touches the object any more, and only then may the row be inserted.
KeyIsFinal ==
    /\ upload = "read" => thread.call = "none" /\ nanoRow = FALSE
    /\ thread.call = "key" => object = "whole"
    /\ upload = "commit" => thread.call = "key"
    /\ nanoRow = TRUE => object = "whole" /\ thread.call \in {"none", "key"}

UploadInv == UploadType /\ KeyIsFinal

-----------------------------------------------------------------------------
\* Initially nothing is stored and there is no row.
LEMMA UploadInitInv == UploadInit => UploadInv
<1> SUFFICES ASSUME UploadInit PROVE UploadInv
  OBVIOUS
<1>1. upload = "read" /\ thread = [call |-> "none", attempt |-> 0]
  BY DEF UploadInit, NoThread
<1>2. nanoRow = FALSE
  BY DEF UploadInit
<1>3. UploadType
  BY <1>1, <1>2 DEF UploadType, ThreadCalls
<1>4. KeyIsFinal
  BY <1>1, <1>2 DEF KeyIsFinal
<1>q. QED BY <1>3, <1>4 DEF UploadInv

\* What an error of the thread leads to is no key.
LEMMA CaughtIsNoKey ==
    ASSUME UploadType, NEW transient \in BOOLEAN, Caught(transient)
    PROVE  /\ thread' \in [call : ThreadCalls, attempt : Nat]
           /\ thread'.call \in {"put", "retryable", "terminal"}
  BY DEF Caught, UploadType, ThreadCalls, Results

LEMMA UploadStep ==
    ASSUME UploadInv, [UploadNext]_uploadVars
    PROVE  UploadInv'
<1> USE DEF UploadInv, UploadType, KeyIsFinal
<1>1. CASE ReadFile
  BY <1>1 DEF ReadFile, ThreadCalls, Results
<1>2. CASE PutObject
  <2>1. upload' = upload /\ nanoRow' = nanoRow /\ thread.call = "put"
    BY <1>2 DEF PutObject
  <2>2. /\ thread' \in [call : ThreadCalls, attempt : Nat]
        /\ thread'.call \in {"stat", "put", "retryable", "terminal"}
    <3>1. CASE thread' = [thread EXCEPT !.call = "stat"]
      BY <3>1 DEF ThreadCalls, Results
    <3>2. CASE \E transient \in BOOLEAN : Caught(transient)
      BY <3>2, CaughtIsNoKey
    <3>q. QED BY <1>2, <3>1, <3>2 DEF PutObject
  <2>q. QED BY <2>1, <2>2
<1>3. CASE StatObject
  <2>1. upload' = upload /\ nanoRow' = nanoRow /\ object' = object
        /\ thread.call = "stat"
    BY <1>3 DEF StatObject
  <2>2. /\ thread' \in [call : ThreadCalls, attempt : Nat]
        /\ thread'.call = "key" => object = "whole"
    <3>1. CASE thread' = [thread EXCEPT !.call = IF Verified THEN "key"
                                                 ELSE "terminal"]
      BY <3>1 DEF Verified, ThreadCalls, Results
    <3>2. CASE \E transient \in BOOLEAN : Caught(transient)
      BY <3>2, CaughtIsNoKey
    <3>q. QED BY <1>3, <3>1, <3>2 DEF StatObject
  <2>q. QED BY <2>1, <2>2
<1>4. CASE WaitTimesOut
  BY <1>4 DEF WaitTimesOut
<1>5. CASE WaitEnds
  BY <1>5 DEF WaitEnds, Results
<1>6. CASE CommitDraft
  BY <1>6 DEF CommitDraft
<1>7. CASE ProcessDies
  BY <1>7 DEF ProcessDies, NoThread, ThreadCalls, Results
<1>8. CASE UNCHANGED uploadVars
  BY <1>8 DEF uploadVars
<1>q. QED
  BY <1>1, <1>2, <1>3, <1>4, <1>5, <1>6, <1>7, <1>8 DEF UploadNext

\* A draft points to an object that is there and whole, for any number of
\* attempts: the row is inserted only after the thread verified the object,
\* and a thread that did so has ended.
THEOREM RowHasObjectHolds == UploadSpec => []RowHasObject
<1>1. UploadInv => RowHasObject
  BY DEF UploadInv, UploadType, KeyIsFinal, RowHasObject
<1>q. QED BY UploadInitInv, UploadStep, <1>1, PTL DEF UploadSpec

-----------------------------------------------------------------------------
(* The rate limiter *)

\* The limiter's lists, and the refusal it told last
LimiterType ==
    /\ now \in Nat
    /\ hits \in Seq(Nat) /\ violations \in Seq(Nat) /\ log \in Seq(Nat)
    /\ refusal \in [until : Nat]

\* hits is the end of the log, as much as fits, and what was taken out of it
\* has left the window.
HitsEndLog ==
    /\ Len(hits) <= MaxRequests /\ Len(hits) <= Len(log)
    /\ \A k \in DOMAIN hits : hits[k] = log[Len(log) - Len(hits) + k]
    /\ \A k \in 1 .. Len(log) - Len(hits) : log[k] <= now - Window

\* The wait that was told ends less than a second before the oldest request
\* leaves the window.
ToldEnough ==
    refusal # NoRefusal /\ Len(hits) > 0 =>
       hits[1] + Window <= refusal.until + (TicksPerSecond - 1)

LimiterInv == LimiterType /\ HitsEndLog /\ ToldEnough /\ WindowBound

-----------------------------------------------------------------------------
\* Initially nothing was accepted.
LEMMA LimiterInitInv == LimiterInit => LimiterInv
  BY RateLimiterAssumption
     DEF LimiterInit, LimiterInv, LimiterType, HitsEndLog, ToldEnough,
         WindowBound, NoRefusal

LEMMA WindowType == Window \in Nat
  BY RateLimiterAssumption DEF Window

LEMMA WindowStays == Window' = Window
  BY DEF Window

\* Prune takes entries from the front, those that have left the window, and
\* stops at the first that has not.
LEMMA PruneIs ==
    ASSUME now \in Nat, NEW s \in Seq(Nat)
    PROVE  \E d \in 0 .. Len(s) :
              /\ Prune(s) \in Seq(Nat) /\ Len(Prune(s)) = Len(s) - d
              /\ \A k \in 1 .. Len(s) - d : Prune(s)[k] = s[d + k]
              /\ \A k \in 1 .. d : s[k] <= now - Window
              /\ d < Len(s) => s[d + 1] > now - Window
<1> DEFINE kept == {k \in DOMAIN s : s[k] > now - Window}
<1>1. kept \subseteq Nat /\ DOMAIN s = 1 .. Len(s)
  OBVIOUS
<1>2. \A k \in DOMAIN s : k \notin kept => s[k] <= now - Window
  BY WindowType
<1>3. CASE kept = {}
  <2>1. Prune(s) = << >>
    BY <1>3 DEF Prune
  <2>2. \A k \in 1 .. Len(s) : s[k] <= now - Window
    BY <1>1, <1>2, <1>3
  <2>3. Len(s) \in Nat
    OBVIOUS
  <2> HIDE DEF kept
  <2> WITNESS Len(s) \in 0 .. Len(s)
  <2>q. QED BY <2>1, <2>2, <2>3
<1>4. CASE kept # {}
  <2>1. /\ Min(kept) \in kept
        /\ \A k \in kept : Min(kept) <= k
    <3> HIDE DEF kept
    <3>q. QED BY <1>1, <1>4, LeastNumber DEF Min
  <2> DEFINE d == Min(kept) - 1
  <2>2. Min(kept) = d + 1 /\ d \in 0 .. Len(s) /\ d < Len(s) /\ s[d + 1] > now - Window
    BY <1>1, <2>1
  <2>3. Prune(s) = SubSeq(s, d + 1, Len(s))
    <3>1. Prune(s) = SubSeq(s, Min(kept), Len(s))
      BY <1>4 DEF Prune
    <3> HIDE DEF kept, d
    <3>q. QED BY <2>2, <3>1, Zenon
  <2> HIDE DEF kept, d
  <2>4. ASSUME NEW k \in 1 .. d PROVE k \in DOMAIN s /\ k \notin kept
    <3>1. k \in Nat /\ k \in 1 .. Len(s) /\ k < Min(kept) /\ Min(kept) \in Nat
      BY <2>2
    <3>2. k \in kept => Min(kept) <= k
      BY <2>1
    <3>q. QED BY <1>1, <3>1, <3>2
  <2>5. /\ Prune(s) \in Seq(Nat) /\ Len(Prune(s)) = Len(s) - d
        /\ \A k \in 1 .. Len(s) - d : Prune(s)[k] = s[d + k]
    BY <2>2, <2>3
  <2>q. QED BY <1>2, <2>2, <2>4, <2>5
<1>q. QED BY <1>3, <1>4

\* The same of the accepted requests
LEMMA PrunedHits ==
    ASSUME LimiterInv
    PROVE  /\ Prune(hits) \in Seq(Nat)
           /\ Len(Prune(hits)) <= Len(hits)
           /\ \A k \in DOMAIN Prune(hits) :
                 Prune(hits)[k] = log[Len(log) - Len(Prune(hits)) + k]
           /\ \A k \in 1 .. Len(log) - Len(Prune(hits)) : log[k] <= now - Window
           /\ Len(Prune(hits)) > 0 => Prune(hits)[1] > now - Window
<1>1. PICK d \in 0 .. Len(hits) :
              /\ Prune(hits) \in Seq(Nat) /\ Len(Prune(hits)) = Len(hits) - d
              /\ \A k \in 1 .. Len(hits) - d : Prune(hits)[k] = hits[d + k]
              /\ \A k \in 1 .. d : hits[k] <= now - Window
              /\ d < Len(hits) => hits[d + 1] > now - Window
  BY PruneIs DEF LimiterInv, LimiterType
<1> DEFINE n == Len(log)
           h == Len(hits)
<1>2. /\ n \in Nat /\ h \in Nat /\ h <= n /\ DOMAIN hits = 1 .. h
      /\ Len(Prune(hits)) = h - d
      /\ DOMAIN Prune(hits) = 1 .. h - d
  BY <1>1 DEF LimiterInv, LimiterType, HitsEndLog
<1>3. ASSUME NEW k \in DOMAIN Prune(hits)
      PROVE  Prune(hits)[k] = log[n - (h - d) + k]
  <2>1. d + k \in 1 .. h /\ Prune(hits)[k] = hits[d + k]
    BY <1>1, <1>2
  <2>2. hits[d + k] = log[n - h + (d + k)]
    BY <1>2, <2>1 DEF LimiterInv, HitsEndLog
  <2>q. QED BY <1>2, <2>1, <2>2
<1>4. ASSUME NEW k \in 1 .. n - (h - d)
      PROVE  log[k] <= now - Window
  <2>1. CASE k <= n - h
    BY <1>2, <2>1 DEF LimiterInv, HitsEndLog
  <2>2. CASE k > n - h
    <3>1. k - (n - h) \in 1 .. d /\ k - (n - h) \in 1 .. h
      BY <1>2, <2>2
    <3>2. hits[k - (n - h)] = log[n - h + (k - (n - h))]
      BY <1>2, <3>1 DEF LimiterInv, HitsEndLog
    <3>q. QED BY <1>1, <1>2, <3>1, <3>2
  <2>q. QED BY <1>2, <2>1, <2>2
<1>5. Len(Prune(hits)) > 0 => Prune(hits)[1] > now - Window
  BY <1>1, <1>2
<1>q. QED BY <1>1, <1>2, <1>3, <1>4, <1>5

LEMMA AcceptStep == ASSUME LimiterInv, Accept PROVE LimiterInv'
<1> DEFINE b == Prune(hits)
           n == Len(log)
<1>1. /\ Len(b) < MaxRequests /\ MaxRequests \in Nat
      /\ hits' = Append(b, now) /\ violations' = << >>
      /\ log' = Append(log, now) /\ refusal' = NoRefusal /\ now' = now
  BY RateLimiterAssumption, PrunedHits DEF Accept, Full
<1>2. /\ b \in Seq(Nat) /\ Len(b) <= n /\ log \in Seq(Nat) /\ now \in Nat
      /\ n \in Nat /\ Len(b) \in Nat /\ DOMAIN b = 1 .. Len(b)
      /\ \A k \in DOMAIN b : b[k] = log[n - Len(b) + k]
      /\ \A k \in 1 .. n - Len(b) : log[k] <= now - Window
  BY PrunedHits DEF LimiterInv, LimiterType, HitsEndLog
<1> HIDE DEF b
<1>3. /\ Len(hits') = Len(b) + 1 /\ Len(log') = n + 1
      /\ DOMAIN hits' = 1 .. Len(b) + 1 /\ DOMAIN log' = 1 .. n + 1
      /\ hits' \in Seq(Nat) /\ log' \in Seq(Nat)
      /\ \A k \in 1 .. Len(b) : hits'[k] = b[k]
      /\ \A k \in 1 .. n : log'[k] = log[k]
      /\ hits'[Len(b) + 1] = now /\ log'[n + 1] = now
  BY <1>1, <1>2
<1>4. /\ n \in Nat /\ Len(b) \in Nat /\ Len(b) <= n /\ now \in Nat
      /\ Len(hits') = Len(b) + 1 /\ Len(log') = n + 1
      /\ DOMAIN hits' = 1 .. Len(b) + 1 /\ DOMAIN b = 1 .. Len(b)
  BY <1>2, <1>3
<1>5. LimiterType'
  BY <1>1, <1>2, <1>3 DEF LimiterType, NoRefusal
<1>6. HitsEndLog'
  <2>1. ASSUME NEW k \in DOMAIN hits'
        PROVE  hits'[k] = log'[Len(log') - Len(hits') + k]
    <3>1. CASE k = Len(b) + 1
      <4>1. Len(log') - Len(hits') + k = n + 1
        BY <1>4, <3>1
      <4>q. QED BY <1>3, <3>1, <4>1
    <3>2. CASE k # Len(b) + 1
      <4>1. k \in 1 .. Len(b) /\ n - Len(b) + k \in 1 .. n
        BY <1>4, <3>2
      <4>2. Len(log') - Len(hits') + k = n - Len(b) + k
        BY <1>4, <4>1
      <4>q. QED BY <1>2, <1>3, <4>1, <4>2
    <3>q. QED BY <3>1, <3>2
  <2>2. ASSUME NEW k \in 1 .. Len(log') - Len(hits')
        PROVE  log'[k] <= now' - Window'
    <3>1. k \in 1 .. n - Len(b) /\ k \in 1 .. n
      BY <1>4
    <3>2. log'[k] = log[k] /\ log[k] <= now - Window
      BY <1>2, <1>3, <3>1
    <3>q. QED BY <1>1, <3>2, WindowStays
  <2>3. Len(hits') <= MaxRequests /\ Len(hits') <= Len(log')
    BY <1>1, <1>4
  <2>q. QED BY <2>1, <2>2, <2>3 DEF HitsEndLog
<1>7. WindowBound'
  <2> SUFFICES ASSUME NEW i \in 1 .. n + 1, i + MaxRequests <= n + 1
               PROVE  log'[i + MaxRequests] - log'[i] >= Window
    BY <1>3 DEF WindowBound, Window
  <2>1. CASE i + MaxRequests <= n
    <3>1. i \in 1 .. n /\ i + MaxRequests \in 1 .. n
      BY <1>1, <1>4, <2>1
    <3>2. log[i + MaxRequests] - log[i] >= Window
      BY <1>2, <2>1, <3>1 DEF LimiterInv, WindowBound
    <3>q. QED BY <1>3, <3>1, <3>2
  <2>2. CASE i + MaxRequests = n + 1
    <3>1. i \in 1 .. n - Len(b) /\ i \in 1 .. n
      BY <1>1, <1>4, <2>2
    <3>2. log'[i + MaxRequests] = now /\ log'[i] = log[i]
      BY <1>3, <2>2, <3>1
    <3>3. log[i] \in Nat /\ log[i] <= now - Window
      BY <1>2, <3>1
    <3>4. now - log[i] >= Window
      BY <1>4, <3>3, WindowType
    <3>q. QED BY <3>2, <3>4
  <2>q. QED BY <1>4, <2>1, <2>2, RateLimiterAssumption
<1>8. ToldEnough'
  BY <1>1 DEF ToldEnough
<1>q. QED BY <1>5, <1>6, <1>7, <1>8 DEF LimiterInv

\* The whole seconds of a wait fall short of it by less than a second.
LEMMA SecondsCover ==
    ASSUME NEW wait \in Nat
    PROVE  /\ wait \div TicksPerSecond \in Nat
           /\ (wait \div TicksPerSecond) * TicksPerSecond
                 + (TicksPerSecond - 1) >= wait
  BY RateLimiterAssumption

LEMMA RefuseStep == ASSUME LimiterInv, Refuse PROVE LimiterInv'
<1> DEFINE b == Prune(hits)
           v == Append(Prune(violations), now)
           left == (Window - (now - b[1])) \div TicksPerSecond
<1>1. /\ Len(b) >= MaxRequests
      /\ hits' = b /\ violations' = v
      /\ refusal' = [until |-> now + RetryAfter(b, v) * TicksPerSecond]
      /\ now' = now /\ log' = log
  BY DEF Refuse, Full
<1>2. /\ b \in Seq(Nat) /\ Len(b) <= Len(hits)
      /\ \A k \in DOMAIN b : b[k] = log[Len(log) - Len(b) + k]
      /\ \A k \in 1 .. Len(log) - Len(b) : log[k] <= now - Window
      /\ Len(b) > 0 => b[1] > now - Window
  BY PrunedHits
<1>3. v \in Seq(Nat) /\ Len(v) \in Nat
  BY PruneIs DEF LimiterInv, LimiterType
<1> HIDE DEF b, v
<1>4. /\ Len(b) > 0 /\ b[1] \in Nat /\ b[1] > now - Window /\ now \in Nat
      /\ log \in Seq(Nat) /\ Len(b) <= MaxRequests /\ Len(b) <= Len(log)
  <2>1. /\ now \in Nat /\ log \in Seq(Nat) /\ hits \in Seq(Nat)
        /\ Len(hits) <= MaxRequests /\ Len(hits) <= Len(log)
    BY DEF LimiterInv, LimiterType, HitsEndLog
  <2>2. Len(b) \in Nat /\ Len(b) > 0 /\ Len(hits) \in Nat /\ Len(log) \in Nat
    BY <1>1, <1>2, <2>1, RateLimiterAssumption
  <2>3. b[1] \in Nat /\ b[1] > now - Window
    BY <1>2, <2>2
  <2>4. Len(b) <= MaxRequests /\ Len(b) <= Len(log)
    <3>1. Len(b) <= Len(hits)
      BY <1>2
    <3>q. QED BY <2>1, <2>2, <3>1, RateLimiterAssumption
  <2>q. QED BY <2>1, <2>2, <2>3, <2>4
<1>5. /\ left \in Nat
      /\ left * TicksPerSecond + (TicksPerSecond - 1) >= Window - (now - b[1])
  <2>1. Window - (now - b[1]) \in Nat
    BY <1>4, WindowType
  <2>q. QED BY <2>1, SecondsCover
<1> HIDE DEF left
<1>6. RetryAfter(b, v) \in Nat /\ RetryAfter(b, v) >= left
  BY <1>3, <1>5 DEF RetryAfter, Greater, left
<1> DEFINE told == now + RetryAfter(b, v) * TicksPerSecond
<1>7. told \in Nat /\ told + (TicksPerSecond - 1) >= b[1] + Window
  <2> DEFINE x == RetryAfter(b, v)
             y == left
  <2>1. x \in Nat /\ y \in Nat /\ x >= y
    BY <1>5, <1>6
  <2> HIDE DEF x, y
  <2>2. x * TicksPerSecond \in Nat /\ x * TicksPerSecond >= y * TicksPerSecond
    BY <2>1, RateLimiterAssumption
  <2>3. y * TicksPerSecond + (TicksPerSecond - 1) >= Window - (now - b[1])
    BY <1>5 DEF y
  <2> DEFINE p == x * TicksPerSecond
             q == y * TicksPerSecond
  <2>4. told = now + p
    BY DEF x
  <2>5. p \in Nat /\ q \in Nat /\ p >= q
        /\ q + (TicksPerSecond - 1) >= Window - (now - b[1])
    BY <2>1, <2>2, <2>3, RateLimiterAssumption
  <2> HIDE DEF told, p, q
  <2>q. QED BY <1>4, <2>4, <2>5, WindowType, RateLimiterAssumption
<1> HIDE DEF told
<1>8. refusal' = [until |-> told]
  BY <1>1 DEF told
<1>9. LimiterType'
  <2>1. refusal' \in [until : Nat]
    BY <1>7, <1>8
  <2>q. QED BY <1>1, <1>2, <1>3, <1>4, <2>1 DEF LimiterType
<1>10. HitsEndLog'
  BY <1>1, <1>2, <1>4, WindowStays DEF HitsEndLog
<1>11. ToldEnough'
  BY <1>1, <1>7, <1>8, WindowStays DEF ToldEnough
<1>12. WindowBound'
  BY <1>1, WindowStays DEF LimiterInv, WindowBound
<1>q. QED BY <1>9, <1>10, <1>11, <1>12 DEF LimiterInv

LEMMA LimiterStep ==
    ASSUME LimiterInv, [LimiterNext]_limiterVars
    PROVE  LimiterInv'
<1>1. CASE Tick
  <2>1. now' = now + 1 /\ UNCHANGED <<hits, violations, log, refusal>>
    BY <1>1 DEF Tick
  <2>2. LimiterType' /\ ToldEnough' /\ WindowBound'
    BY <2>1, WindowStays
       DEF LimiterInv, LimiterType, ToldEnough, WindowBound
  <2>3. ASSUME NEW k \in 1 .. Len(log) - Len(hits)
        PROVE  log[k] <= (now + 1) - Window
    <3>1. log \in Seq(Nat) /\ hits \in Seq(Nat) /\ now \in Nat
      BY DEF LimiterInv, LimiterType
    <3>2. log[k] <= now - Window /\ k \in 1 .. Len(log)
      BY <3>1 DEF LimiterInv, HitsEndLog
    <3>3. log[k] \in Nat
      BY <3>1, <3>2
    <3>q. QED BY <3>1, <3>2, <3>3, WindowType
  <2>q. QED BY <2>1, <2>2, <2>3, WindowStays DEF LimiterInv, HitsEndLog
<1>2. CASE UNCHANGED limiterVars
  BY <1>2, WindowStays DEF limiterVars, LimiterInv, LimiterType, HitsEndLog,
                           ToldEnough, WindowBound
<1>q. QED BY <1>1, <1>2, AcceptStep, RefuseStep DEF LimiterNext

LEMMA LimiterInvHolds == LimiterSpec => []LimiterInv
  BY LimiterInitInv, LimiterStep, PTL DEF LimiterSpec

\* No interval as long as the window has more than MaxRequests accepted
\* requests, for any limit and window.
THEOREM WindowBoundHolds == LimiterSpec => []WindowBound
<1>1. LimiterInv => WindowBound
  BY DEF LimiterInv
<1>q. QED BY <1>1, LimiterInvHolds, PTL

\* A caller that waited as long as it was told, and for the fraction of a
\* second that was cut off, is accepted, for any limit, window and clock: the
\* oldest request has left the window by then.
THEOREM RetryAfterWithinASecondHolds == LimiterSpec => []RetryAfterWithinASecond
<1>1. ASSUME LimiterInv, refusal # NoRefusal,
             now >= refusal.until + (TicksPerSecond - 1)
      PROVE  ~Full(Prune(hits))
  <2>1. hits \in Seq(Nat) /\ now \in Nat /\ Len(hits) <= MaxRequests
        /\ refusal.until \in Nat
    BY <1>1 DEF LimiterInv, LimiterType, HitsEndLog
  <2>2. PICK d \in 0 .. Len(hits) :
            /\ Len(Prune(hits)) = Len(hits) - d
            /\ d < Len(hits) => hits[d + 1] > now - Window
    BY <2>1, PruneIs
  <2>3. Len(hits) > 0 => hits[1] \in Nat /\ hits[1] <= now - Window
    BY <1>1, <2>1, WindowType, RateLimiterAssumption DEF LimiterInv, ToldEnough
  <2>4. d = 0 => Len(hits) = 0
    BY <2>1, <2>2, <2>3, WindowType
  <2>q. QED BY <2>1, <2>2, <2>4, RateLimiterAssumption DEF Full
<1>2. LimiterInv => RetryAfterWithinASecond
  BY <1>1 DEF RetryAfterWithinASecond
<1>q. QED BY <1>2, LimiterInvHolds, PTL
=============================================================================
