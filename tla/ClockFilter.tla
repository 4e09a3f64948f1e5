---------------------------- MODULE ClockFilter ----------------------------
(***************************************************************************)
(* Clock synchronisation: a client's CLOCK_PING exchanges with the host    *)
(* and ClockFilter::push of loom-proto/src/clocksync.rs.                   *)
(*                                                                         *)
(* The host's clock is ahead of the client's by theta, which neither       *)
(* knows.  The two legs of an exchange take any time up to MaxLeg, so the  *)
(* exchange may be as asymmetric as the network makes it.                  *)
(***************************************************************************)
EXTENDS Integers, Sequences

CONSTANTS
  WINDOW,    \* samples kept, 16 in the code
  Thetas,    \* the host's clock minus the client's
  Starts,    \* client times at which a PING may be sent
  MaxLeg,    \* bound on the time either leg takes
  MaxPushes  \* bound on the exchanges

ASSUME ClockFilterAssumption ==
  /\ WINDOW \in Nat \ {0} /\ MaxLeg \in Nat /\ MaxPushes \in Nat
  /\ Thetas \subseteq Int /\ Starts \subseteq Int

VARIABLES
  theta,     \* the true offset
  window,    \* the samples held, oldest first
  estimate,  \* what the last push returned
  history    \* history: every sample so far

clockVars == <<theta, window, estimate, history>>

Samples == [rtt : Int, offset : Int]

NoEstimate == [rtt |-> 0, offset |-> 0]

ClockInit ==
  /\ theta \in Thetas
  /\ window = <<>> /\ estimate = NoEstimate /\ history = <<>>

-----------------------------------------------------------------------------
\* Faulty: the host's reply is stamped after a delay the sample ignores.
SampleSkewed(t0, t1, t2, t3) ==
  [rtt |-> (t3 - t0) - (t2 - t1), offset |-> ((t1 - t0) + (t3 - t2)) \div 2]

\* div_euclid(2) floors, as \div does.
Sample(t0, t1, t2, t3) ==
  [rtt |-> (t3 - t0) - (t2 - t1), offset |-> ((t1 - t0) + (t2 - t3)) \div 2]

\* Faulty: the check comes before the sample that overfills the window.
SlideLate(w) == IF Len(w) > WINDOW + 1 THEN Tail(w) ELSE w

\* The oldest sample goes when there are more than WINDOW.
Slide(w) == IF Len(w) > WINDOW THEN Tail(w) ELSE w

\* Faulty: a tie keeps the earlier sample.
BestOldest(w) ==
  LET best[n \in 1 .. Len(w)] ==
        IF n = 1 THEN w[1] ELSE IF w[n].rtt < best[n - 1].rtt THEN w[n] ELSE best[n - 1]
  IN best[Len(w)]

\* The scan of the window, oldest to newest, with `<=`.
Best(w) ==
  LET best[n \in 1 .. Len(w)] ==
        IF n = 1 THEN w[1] ELSE IF w[n].rtt <= best[n - 1].rtt THEN w[n] ELSE best[n - 1]
  IN best[Len(w)]

Push(s) ==
  /\ window' = Slide(Append(window, s))
  /\ estimate' = Best(window')
  /\ history' = Append(history, s)
  /\ UNCHANGED theta

\* A PING sent at t reaches the driver after `out`: it stamps one time, for
\* both the receipt and the reply, and the PONG is back after `back`.
Exchange(t, out, back) ==
  LET stamp == t + out + theta
  IN  /\ Len(history) < MaxPushes
      /\ Push(Sample(t, stamp, stamp, t + out + back))

ClockNext ==
  \E t \in Starts, out \in 0 .. MaxLeg, back \in 0 .. MaxLeg : Exchange(t, out, back)

ClockSpec == ClockInit /\ [][ClockNext]_clockVars

-----------------------------------------------------------------------------
ClockTypeOK ==
  /\ theta \in Thetas /\ estimate \in Samples
  /\ window \in Seq(Samples) /\ Len(window) <= WINDOW
  /\ history \in Seq(Samples)

\* A sample's offset is wrong by at most half its round trip, floored: however
\* the trip is split between the legs, and whatever the sign of the offset.
Within(s) ==
  /\ 2 * (s.offset - theta) <= s.rtt
  /\ 2 * (theta - s.offset) <= s.rtt + 1

\* What push returns is a bound on the clock error a client may rely on.
EstimateWithinBound == window # <<>> => Within(estimate)

\* Of the last WINDOW samples pushed none has a shorter round trip than the
\* estimate, and none that is as short is newer: the evicted samples, an
\* evicted minimum among them, have no say.
EstimateIsNewestBest ==
  LET first == IF Len(history) > WINDOW THEN Len(history) - WINDOW + 1 ELSE 1
      recent == first .. Len(history)
  IN  history # <<>> =>
        \E n \in recent :
          /\ estimate = history[n]
          /\ \A m \in recent : /\ history[n].rtt <= history[m].rtt
                               /\ m > n => history[n].rtt < history[m].rtt

(* The clock estimate is the newest of the best samples of the window, and *)
(* its error at most half that sample's round trip (clocksync.rs).         *)
EstimateTrustworthy == EstimateIsNewestBest /\ EstimateWithinBound
=============================================================================
