-------------------------------- MODULE MlCc --------------------------------
(***************************************************************************)
(* Congestion control of one flow by a forest (ml_cc.c in                  *)
(* src/flexio/pcc/device/rp/ml_cc/algo), called by the NIC for each event  *)
(* of the flow: a transmission, an RTT answer, a congestion notification   *)
(* (CNP), a NACK, or another.  Events come in any order; RTT requests and  *)
(* answers are lost, late or repeated; an event may have any timestamp.    *)
(*                                                                         *)
(* Timestamps and delays are 32 bits wide in the code, Word here.          *)
(***************************************************************************)
EXTENDS CcForest

CONSTANTS Word,            \* 2^32
          CountWord,       \* 2^8: abort_cnt
          ShiftWord,       \* 2^5: the bits of a shift count the processor uses
          MaxStreak,       \* UINT8_MAX: cnp_streak
          AbortTime,       \* ABORT_TIME
          MaxRate,         \* DOCA_PCC_DEV_MAX_RATE
          InitialMinRtt,   \* INITIAL_MIN_RTT
          Params,          \* settings: [ALPHA, NEW_RATE, MIN_RATE, MAX_DELAY]
          Forests,         \* forests that may be built in
          Times,           \* timestamps of TX events
          Answers,         \* RTT answers: <<start_rtt, end_rtt>>
          MaxAnswers       \* bound: RTT answers the model takes in a run

\* What ml_cc_init registers the parameters with; the firmware refuses others.
ml_cc_init == [ALPHA : 1 .. One, NEW_RATE : 1 .. MaxRate, MIN_RATE : 1 .. MaxRate,
               MAX_DELAY : 1 .. Word - 1]

ASSUME MlCcAssumption ==
    /\ Word \in Nat \ {0} /\ CountWord \in Nat \ {0} /\ ShiftWord \in Nat \ {0}
    /\ AbortTime \in 1 .. Word - 1 /\ InitialMinRtt \in 0 .. Word - 1
    /\ MaxRate \in Nat \ {0} /\ Word > 2 * MaxRate
    /\ Params \subseteq ml_cc_init
    /\ Times \subseteq 0 .. Word - 1
    /\ Answers \subseteq (0 .. Word - 1) \X (0 .. Word - 1)
    /\ MaxAnswers \in Nat /\ MaxStreak \in Nat

VARIABLES
    forest, param,
    \* ml_cc_ctxt_t
    cur_rate, start_delay, rtt, min_rtt, ewma_rtt, was_nack, was_cnp,
    abort_cnt, rtt_meas_psn, rtt_req_to_rtt_sent, cnp_streak,
    rtt_req,     \* results->rtt_req; results->rate is always cur_rate
    known,       \* the flow has had an event
    vote,        \* the forest's last output, before it is limited
    answers      \* RTT answers taken; these three are read by properties
                 \* and the bound only

probe == <<start_delay, abort_cnt, rtt_meas_psn, rtt_req_to_rtt_sent>>
delay == <<rtt, min_rtt, ewma_rtt>>
flags == <<was_nack, was_cnp, cnp_streak>>
built == <<forest, param>>
history == <<known, vote, answers>>
cc_vars == <<built, cur_rate, probe, delay, flags, rtt_req, history>>

\* A context is zeroed when its flow appears.
CcInit ==
    /\ forest \in Forests /\ param \in Params
    /\ cur_rate = 0
    /\ start_delay = 0 /\ abort_cnt = 0 /\ rtt_meas_psn = 0
    /\ rtt_req_to_rtt_sent = 0
    /\ rtt = 0 /\ min_rtt = 0 /\ ewma_rtt = 0
    /\ was_nack = 0 /\ was_cnp = 0 /\ cnp_streak = 0
    /\ rtt_req = 0
    /\ known = FALSE /\ vote = 0 /\ answers = 0

-----------------------------------------------------------------------------
\* ml_cc_handle_new_flow, whatever the event
NewFlow(now) ==
    /\ cur_rate = 0
    /\ cur_rate' = param.NEW_RATE
    /\ start_delay' = now /\ rtt_meas_psn' = 0 /\ rtt_req_to_rtt_sent' = 1
    /\ abort_cnt' = 0
    /\ min_rtt' = InitialMinRtt /\ ewma_rtt' = InitialMinRtt
    /\ was_nack' = 0 /\ was_cnp' = 0 /\ cnp_streak' = 0
    /\ rtt_req' = 1
    /\ known' = TRUE
    /\ UNCHANGED <<built, rtt, vote, answers>>

\* Word - 1, and not Word, is added when the clock has wrapped.
Elapsed(from, to) == IF from > to THEN (to - from + Word - 1) % Word
                     ELSE to - from

\* Wrong: the limit is computed in 64 bits.
AbortLimitWide == AbortTime * 2 ^ abort_cnt

\* (uint32_t)ABORT_TIME << abort_cnt
AbortLimit == (AbortTime * 2 ^ (abort_cnt % ShiftWord)) % Word

\* The RTT request went out with this packet.
TxRequestSent(now) ==
    /\ cur_rate # 0
    /\ rtt_meas_psn = 0
    /\ rtt_meas_psn' = 1
    /\ rtt_req_to_rtt_sent' = 0
    /\ start_delay' = now
    /\ rtt_req' = 0
    /\ UNCHANGED <<built, cur_rate, abort_cnt, delay, flags, history>>

\* Any other packet.  A request that was not sent after two more packets, or
\* not answered in time, is made again.
TxOther(now) ==
    LET waiting == rtt_meas_psn # 0
        late == waiting /\ Elapsed(start_delay, now) > AbortLimit
        sent == rtt_req_to_rtt_sent + (IF waiting THEN 0 ELSE 1)
    IN  /\ cur_rate # 0
        /\ rtt_req' = IF late \/ sent > 2 THEN 1 ELSE 0
        /\ rtt_req_to_rtt_sent' = IF late \/ sent > 2 THEN 1 ELSE sent
        /\ abort_cnt' = IF late THEN (abort_cnt + 1) % CountWord ELSE abort_cnt
        /\ UNCHANGED <<built, cur_rate, start_delay, rtt_meas_psn, delay,
                       flags, history>>

\* A packet that carries the flag while a request is under way is any other.
Tx(now) == TxRequestSent(now) \/ TxOther(now)

Cnp ==
    /\ cur_rate # 0
    /\ was_cnp' = 1
    /\ cnp_streak' = IF cnp_streak < MaxStreak THEN cnp_streak + 1 ELSE cnp_streak
    /\ rtt_req' = 0
    /\ UNCHANGED <<built, cur_rate, probe, delay, was_nack, history>>

Nack ==
    /\ cur_rate # 0
    /\ was_nack' = 1
    /\ cnp_streak' = 0
    /\ rtt_req' = 0
    /\ UNCHANGED <<built, cur_rate, probe, delay, was_cnp, history>>

\* Any other event, or an RTT answer nobody waits for.
Ignored ==
    /\ cur_rate # 0
    /\ rtt_req' = 0
    /\ UNCHANGED <<built, cur_rate, probe, delay, flags, history>>

-----------------------------------------------------------------------------
(* ml_cc_handle_roce_rtt *)

Signed(n) == IF n >= Word \div 2 THEN n - Word ELSE n

\* The running minimum before the sample; it starts over now and then.
MinBefore(end) == IF end % 256 = 0 THEN InitialMinRtt ELSE min_rtt

NewEwma(sample) == FxpMult(sample, param.ALPHA)
                   + FxpMult(ewma_rtt, One - param.ALPHA)

RttFeatures(sample, min) ==
    [RELATIVE_RTT |-> Signed(IF sample >= min THEN sample - min ELSE sample),
     EWMA_RTT     |-> Signed(NewEwma(sample) % Word),
     CUR_RATE     |-> cur_rate,
     WAS_CNP      |-> was_cnp,
     WAS_NACK     |-> was_nack,
     CNP_STREAK   |-> cnp_streak]

\* Wrong: the vote is applied as the forest gives it.
LimitedNot(v) == v

\* -100% .. +100%
Limited(v) == IF v > One THEN One ELSE IF v < -One THEN -One ELSE v

Scaled(rate, v) == IF v >= 0 THEN rate + FxpMult(rate, v)
                   ELSE (rate - FxpMult(rate, -v)) % Word

\* Wrong: the safety net looks at the smoothed delay.
SafeOnEwma(rate, sample) ==
    IF NewEwma(sample) >= param.MAX_DELAY THEN FxpMult(rate, One \div 2) ELSE rate

\* The safety net, whatever the model says.
Safe(rate, sample) ==
    IF Signed(sample) >= Signed(param.MAX_DELAY)
    THEN FxpMult(rate, One \div 2) ELSE rate

\* Wrong: the floor is 0.
ClampedNoFloor(rate) == IF rate > MaxRate THEN MaxRate ELSE rate

Clamped(rate) == IF rate > MaxRate THEN MaxRate
                 ELSE IF rate < param.MIN_RATE THEN param.MIN_RATE ELSE rate

RttAnswer(start, end) ==
    LET sample == Elapsed(start, end)
        v == ml_cc_forest_infer(forest, RttFeatures(sample, MinBefore(end)))
    IN  /\ cur_rate # 0
        /\ rtt_meas_psn # 0 \/ rtt_req_to_rtt_sent # 0
        /\ answers < MaxAnswers
        /\ rtt' = sample
        /\ min_rtt' = IF sample < MinBefore(end) THEN sample ELSE MinBefore(end)
        /\ ewma_rtt' = NewEwma(sample) % Word
        /\ cur_rate' = Clamped(Safe(Scaled(cur_rate, Limited(v)), sample))
        /\ rtt_meas_psn' = 0 /\ abort_cnt' = 0 /\ rtt_req_to_rtt_sent' = 1
        /\ was_cnp' = 0 /\ was_nack' = 0
        /\ rtt_req' = 1
        /\ vote' = v /\ answers' = answers + 1
        /\ UNCHANGED <<built, start_delay, cnp_streak, known>>

\* ml_cc_set_algo_params accepted a setting.
SetParams(p) ==
    /\ param' = p
    /\ UNCHANGED <<forest, cur_rate, probe, delay, flags, rtt_req, history>>

CcNext == \/ \E now \in Times : NewFlow(now) \/ Tx(now)
          \/ \E a \in Answers : RttAnswer(a[1], a[2])
          \/ Cnp \/ Nack \/ Ignored
          \/ \E p \in Params : SetParams(p)

\* The flow keeps sending, and not only at some points of the clock's turn.
CcSpec == /\ CcInit /\ [][CcNext]_cc_vars
          /\ \A now \in Times : WF_cc_vars(TxOther(now))

-----------------------------------------------------------------------------
AtLeast(a, b) == IF a > b THEN a ELSE b

(***************************************************************************)
(* Type invariant.  A flow's rate is never 0 again: the algorithm takes    *)
(* rate 0 for a flow it has not seen, and would start it over at full      *)
(* speed (ml_cc_algo).                                                     *)
(***************************************************************************)
CcTypeOK ==
    /\ cur_rate \in (IF known THEN 1 .. MaxRate ELSE {0})
    /\ {start_delay, rtt, min_rtt, ewma_rtt} \subseteq 0 .. Word - 1
    /\ abort_cnt \in 0 .. CountWord - 1
    /\ rtt_req_to_rtt_sent \in 0 .. 2
    /\ cnp_streak \in 0 .. MaxStreak
    /\ {rtt_meas_psn, was_nack, was_cnp, rtt_req} \subseteq {0, 1}

(***************************************************************************)
(* Action property: whatever forest is built in, even one whose leaves are *)
(* out of range or whose nodes loop, a vote against the rate never raises  *)
(* it above the floor, and a vote for it at most doubles it ("a malformed  *)
(* or badly trained forest can never underflow", ml_cc_handle_roce_rtt);   *)
(* for MAX_DELAY below 2^31, beyond which the safety net is always on.     *)
(***************************************************************************)
RateFollowsVote ==
    [][answers' # answers =>
          /\ cur_rate' <= AtLeast(2 * cur_rate, param.MIN_RATE)
          /\ vote' < 0 => cur_rate' <= AtLeast(cur_rate, param.MIN_RATE)
          /\ vote' >= 0 /\ rtt' < param.MAX_DELAY => cur_rate' >= cur_rate]_cc_vars

(***************************************************************************)
(* Action property: an answer later than MAX_DELAY never raises the rate,  *)
(* and only the floor keeps a vote of zero or less from halving it, for    *)
(* delays below 2^31 (the comparison in ml_cc_handle_roce_rtt is signed).  *)
(***************************************************************************)
SafetyNetHolds ==
    [][answers' # answers /\ rtt' >= param.MAX_DELAY =>
          cur_rate' <= AtLeast(param.MIN_RATE,
                               IF vote' > 0 THEN cur_rate ELSE cur_rate \div 2)]_cc_vars

(***************************************************************************)
(* Liveness: a flow that goes on sending goes on asking for RTT samples,   *)
(* whatever requests and answers are lost, and although every missed       *)
(* answer doubles the time waited for the next: the limit is cut to 32     *)
(* bits and so never exceeds what the clock can show (ml_cc_handle_roce_tx)*)
(***************************************************************************)
ProbesGoOn == known /\ rtt_req = 0 ~> rtt_req = 1
=============================================================================
