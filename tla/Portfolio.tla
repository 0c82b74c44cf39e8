----------------------------- MODULE Portfolio ------------------------------
(***************************************************************************)
(* The account of the trading loop: execution/portfolio.py, the funding    *)
(* schedule of execution/cost_model.py, the charge of the paper broker and *)
(* the choice of the funding rate in backtest/engine.py.                   *)
(*                                                                         *)
(* The engine trades one instrument, so the maps the Portfolio keeps per   *)
(* instrument hold one entry here.  Money is in integers: the prices of an *)
(* instance are multiples of a scale by which every division of the code   *)
(* is exact for the number of bars allowed (Decimal rounds only at the     *)
(* 28th digit).  A fill costs the FeeDivisor-th part of its notional, a    *)
(* rate counts in FundingDivisor-ths.                                      *)
(***************************************************************************)
EXTENDS Integers, Sequences, FiniteSets, FiniteSetsExt

CONSTANTS
    BarPrices,         \* open, close and fill prices
    FillQtys,          \* quantities of a fill
    MaxPosition,       \* bound: the largest position
    MaxBars,           \* bound: bars of a run
    FeeDivisor, FundingDivisor,
    DayLength,         \* NS_PER_DAY
    FundingOffsets,    \* moments of a day
    OpenSteps,         \* distance between two bar opens: 1 bar, or a gap
    BarLength,
    MatchWindow,       \* funding_match_ns
    FundingSeries,     \* the recorded rates: <<[t, r]>>, ascending
    FallbackRate

(* The scale of the money: every price is a multiple of FeeDivisor.        *)
ASSUME MoneyAssumption ==
    /\ FeeDivisor \in Nat \ {0} /\ FundingDivisor \in Nat \ {0}
    /\ BarPrices \subseteq Nat /\ \A p \in BarPrices : p % FeeDivisor = 0
    /\ FillQtys \subseteq Nat \ {0} /\ MaxPosition \in Nat /\ MaxBars \in Nat

(* Bars open one after another, and the recorded rates are in the order of *)
(* their times.                                                            *)
ASSUME ScheduleAssumption ==
    /\ DayLength \in Nat \ {0}
    /\ FundingOffsets \subseteq 0 .. (DayLength - 1) /\ FundingOffsets # {}
    /\ OpenSteps \subseteq Nat \ {0} /\ BarLength \in Nat /\ MatchWindow \in Nat
    /\ FundingSeries \in Seq([t : Int, r : Int]) /\ FallbackRate \in Int
    /\ \A i, j \in DOMAIN FundingSeries : i < j => FundingSeries[i].t <= FundingSeries[j].t

VARIABLES
    pfCash,            \* spot-equivalent money
    pfRealized, pfFees, pfFunding,
    pfPos,             \* the Position with the accumulators of its trade
    pfTrades,          \* closed_trades: their totals, and the last one
    pfMark,            \* the mark price, 0 before the first one
    pfClock,           \* the loop: open of the last bar, -1 before; bars seen
    pfPtr,             \* _funding_ptr
    pfRate,            \* the rate in force at the venue
    pfDue              \* the funding of the last bar: the position that was
                       \* held into it, the moments charged, the last moment

pfVars == <<pfCash, pfRealized, pfFees, pfFunding, pfPos, pfTrades, pfMark,
            pfClock, pfPtr, pfRate, pfDue>>

signOf(x) == IF x > 0 THEN 1 ELSE IF x < 0 THEN -1 ELSE 0

absOf(x) == IF x < 0 THEN -x ELSE x

least(a, b) == IF a < b THEN a ELSE b

NoTrade == [side |-> 0, maxQty |-> 0, realized |-> 0, fees |-> 0,
            funding |-> 0, entryN |-> 0, entryQ |-> 0, exitN |-> 0,
            exitQ |-> 0, mae |-> 0]

(* _start_trade: the accumulators of a trade begin at nothing. *)
StartTrade(side) == [NoTrade EXCEPT !.side = side]

-----------------------------------------------------------------------------
(* The schedule: the first moment after t, and the moments of (from, to],  *)
(* day by day.                                                             *)
DayOf(t) == t - (t % DayLength)

next_funding_time(t) ==
    LET later == {o \in FundingOffsets : DayOf(t) + o > t}
    IN  IF later # {} THEN DayOf(t) + Min(later)
        ELSE DayOf(t) + DayLength + Min(FundingOffsets)

MomentsFrom(from, to) ==
    {DayOf(from) + d * DayLength + o :
        d \in 0 .. ((to - DayOf(from)) \div DayLength), o \in FundingOffsets}

funding_times(from, to) == {t \in MomentsFrom(from, to) : from < t /\ t <= to}

(* _apply_funding_rate: the records up to the horizon are consumed; the    *)
(* last of them gives the rate if it lies in the window of the last moment. *)
Consumed(m, close) ==
    Cardinality({i \in DOMAIN FundingSeries :
                    FundingSeries[i].t <= least(m + MatchWindow, close)})

RateOf(m, p) ==
    IF p > 0 /\ FundingSeries[p].t > m - MatchWindow
    THEN FundingSeries[p].r ELSE FallbackRate

-----------------------------------------------------------------------------
(* A fill on the account a = [cash, realized, fees, pos, trades].          *)

(* A position of the same side grows, or opens. *)
Increase(a, f) ==
    LET p == a.pos
        t == IF p.qty = 0 THEN StartTrade(f.side) ELSE p.trade
        q == p.qty + f.side * f.qty
    IN  [a EXCEPT !.pos =
           [qty |-> q, basis |-> p.basis + f.side * f.qty * f.price,
            trade |-> [t EXCEPT !.fees = @ + f.fee,
                                !.entryN = @ + f.qty * f.price,
                                !.entryQ = @ + f.qty,
                                !.maxQty = IF absOf(q) > @ THEN absOf(q) ELSE @]]]

(* Fault: the whole fee of a flip belongs to the trade it closes. *)
FaultyFeeClose(f, closed) == f.fee

(* The part of the fee that belongs to the part of the fill that closes.   *)
FeeClose(f, closed) == IF closed = f.qty THEN f.fee ELSE (f.fee * closed) \div f.qty

(* What the remainder of a fill through zero opens. *)
Remainder(f, closed, feeClose) ==
    LET rest == f.qty - closed
    IN  [qty |-> f.side * rest, basis |-> f.side * rest * f.price,
         trade |-> [StartTrade(f.side) EXCEPT !.fees = f.fee - feeClose,
                                              !.entryN = rest * f.price,
                                              !.entryQ = rest,
                                              !.maxQty = rest]]

(* _finish_trade: the trade joins the closed ones. *)
Finished(trades, t) ==
    [realized |-> trades.realized + t.realized, fees |-> trades.fees + t.fees,
     funding |-> trades.funding + t.funding, last |-> t]

(* The opposite side: reduce, close, or go through zero. *)
Decrease(a, f) ==
    LET p == a.pos
        closed == least(f.qty, absOf(p.qty))
        cost == IF closed = absOf(p.qty) THEN p.basis
                ELSE (p.basis * closed) \div absOf(p.qty)
        pnl == signOf(p.qty) * closed * f.price - cost
        q == p.qty + f.side * closed
        t == [p.trade EXCEPT !.realized = @ + pnl,
                             !.fees = @ + FeeClose(f, closed),
                             !.exitN = @ + closed * f.price,
                             !.exitQ = @ + closed]
        held == [qty |-> q, basis |-> p.basis - cost, trade |-> t]
        flat == [qty |-> 0, basis |-> 0, trade |-> [t EXCEPT !.side = 0]]
    IN  [a EXCEPT !.realized = @ + pnl,
                  !.trades = IF q = 0 THEN Finished(@, t) ELSE @,
                  !.pos = IF f.qty > closed THEN Remainder(f, closed, FeeClose(f, closed))
                          ELSE IF q = 0 THEN flat ELSE held]

apply_fill(a, f) ==
    LET b == [a EXCEPT !.cash = @ - f.side * f.qty * f.price, !.fees = @ + f.fee]
    IN  IF a.pos.qty = 0 \/ signOf(a.pos.qty) = f.side
        THEN Increase(b, f) ELSE Decrease(b, f)

-----------------------------------------------------------------------------
PortfolioInit ==
    /\ pfCash = 0 /\ pfRealized = 0 /\ pfFees = 0 /\ pfFunding = 0
    /\ pfPos = [qty |-> 0, basis |-> 0, trade |-> NoTrade]
    /\ pfTrades = [realized |-> 0, fees |-> 0, funding |-> 0, last |-> NoTrade]
    /\ pfMark = 0
    /\ pfClock = [prev |-> -1, open |-> -1, bars |-> 0]
    /\ pfPtr = 0 /\ pfRate = FallbackRate
    /\ pfDue = [qty |-> 0, moments |-> {}]

(* The moments the bar that opens at t is charged for: those since the last *)
(* open, if a position is held into the bar.                               *)
Charged(t) ==
    IF \/ pfPos.qty = 0 \/ pfClock.open < 0
       \/ t < next_funding_time(pfClock.open)
    THEN {} ELSE funding_times(pfClock.open, t)

(* What they cost: a moment that is this open at its price, an earlier one *)
(* at the last close.                                                      *)
Payment(t, open, rate) ==
    LET earlier == Cardinality(Charged(t) \ {t}) * pfMark
        now == IF t \in Charged(t) THEN open ELSE 0
    IN  (pfPos.qty * rate * (earlier + now)) \div FundingDivisor

(* The record the rate of the bar is taken from: consumed up to the last   *)
(* moment of its interval, left alone if there is none.                    *)
Pointer(t) ==
    LET moments == IF pfClock.open < 0 THEN {} ELSE funding_times(pfClock.open, t)
    IN  IF moments = {} THEN [ptr |-> pfPtr, rate |-> pfRate]
        ELSE LET p == Consumed(Max(moments), t + BarLength)
             IN  [ptr |-> p, rate |-> RateOf(Max(moments), p)]

(* The account after the funding and the fill of a bar. *)
Settled(paid, fill) ==
    LET funded == [cash |-> pfCash - paid, realized |-> pfRealized,
                   fees |-> pfFees, trades |-> pfTrades,
                   pos |-> [pfPos EXCEPT !.trade.funding = @ + paid]]
    IN  IF fill.qty = 0 THEN funded ELSE apply_fill(funded, fill)

(* One bar of the loop: the rate, the funding, at most one fill, the mark. *)
AccountBar(t, open, fill, close) ==
    \E next \in {Pointer(t)} :
    \E paid \in {Payment(t, open, next.rate)} :
    \E a \in {Settled(paid, fill)} :
        /\ absOf(a.pos.qty) <= MaxPosition
        /\ pfPtr' = next.ptr /\ pfRate' = next.rate
        /\ pfDue' = [qty |-> pfPos.qty, moments |-> Charged(t)]
        /\ pfCash' = a.cash /\ pfRealized' = a.realized /\ pfFees' = a.fees
        /\ pfFunding' = pfFunding + paid
        /\ pfTrades' = a.trades
        /\ pfPos' = IF a.pos.qty = 0 THEN a.pos
                    ELSE [a.pos EXCEPT !.trade.mae =
                             least(@, a.pos.qty * close - a.pos.basis)]
        /\ pfMark' = close
        /\ pfClock' = [prev |-> pfClock.open, open |-> t, bars |-> pfClock.bars + 1]

(* The fill a bar may bring: none (quantity 0), or one at the open. *)
FillsAt(open) ==
    {[side |-> s, qty |-> q, price |-> open, fee |-> (q * open) \div FeeDivisor] :
        s \in {-1, 1}, q \in FillQtys \cup {0}}

PortfolioNext ==
    /\ pfClock.bars < MaxBars
    /\ \E step \in OpenSteps, open \in BarPrices, close \in BarPrices :
         \E fill \in FillsAt(open) :
            AccountBar(IF pfClock.open < 0 THEN 0 ELSE pfClock.open + step,
                       open, fill, close)

-----------------------------------------------------------------------------
wallet_balance == pfRealized - pfFees - pfFunding

unrealized == pfPos.qty * pfMark - pfPos.basis

equity == wallet_balance + unrealized

equity_cash_form == pfCash + pfPos.qty * pfMark - pfFees

identity_residual == equity_cash_form - equity

(* The trade in progress, which is nothing when the position is flat. *)
OpenTrade == IF pfPos.qty = 0 THEN NoTrade ELSE pfPos.trade

(* Both forms of the equity agree after any mixture of increases, partial  *)
(* closes, flips and funding; every cent of profit, fee and funding is in  *)
(* exactly one trade, closed or open; and a closed trade bought what it    *)
(* sold, its profit being what its exits earned over its entries and its   *)
(* fees those of its own turnover, also when one fill closed it and opened *)
(* the next.                                                               *)
(* (Portfolio.apply_fill, apply_funding, mark, _finish_trade)              *)
BooksBalance ==
    /\ identity_residual = 0
    /\ pfRealized = pfTrades.realized + OpenTrade.realized
    /\ pfFees = pfTrades.fees + OpenTrade.fees
    /\ pfFunding = pfTrades.funding + OpenTrade.funding
    /\ LET tr == pfTrades.last
       IN  /\ tr.entryQ = tr.exitQ
           /\ tr.realized = tr.side * (tr.exitN - tr.entryN)
           /\ tr.fees * FeeDivisor = tr.entryN + tr.exitN
    /\ pfPos.trade.side = signOf(pfPos.qty)
    /\ OpenTrade.entryQ - OpenTrade.exitQ = absOf(pfPos.qty)
    /\ pfPos.qty # 0 => pfPos.trade.mae <= least(0, unrealized)

(* The records of the series that the bar opened at t may use for moment m: *)
(* close enough to the moment, and known when the bar closes.              *)
KnownRates(m, t) ==
    {i \in DOMAIN FundingSeries :
        /\ FundingSeries[i].t > m - MatchWindow
        /\ FundingSeries[i].t <= m + MatchWindow
        /\ FundingSeries[i].t <= t + BarLength}

(* Funding is charged once for every moment a position was held into: a    *)
(* moment belongs to one bar, gaps between bars lose none, and the rate is *)
(* the newest one recorded near the last moment that the bar could know.   *)
(* (CostModel.funding_times, next_funding_time,                            *)
(* PaperBroker._charge_funding, TradingLoop._apply_funding_rate)           *)
FundingIsExact ==
    pfClock.prev >= 0 =>
      LET due == {m \in (pfClock.prev + 1) .. pfClock.open :
                     m % DayLength \in FundingOffsets}
      IN  /\ pfDue.moments = (IF pfDue.qty = 0 THEN {} ELSE due)
          /\ due # {} =>
               LET known == KnownRates(Max(due), pfClock.open)
               IN  pfRate = IF known = {} THEN FallbackRate
                            ELSE FundingSeries[Max(known)].r

(* The accounts are right in both respects: what was booked, and when. *)
AccountsAreExact == BooksBalance /\ FundingIsExact

=============================================================================
