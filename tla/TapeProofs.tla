----------------------------- MODULE TapeProofs -----------------------------
(***************************************************************************)
(* Proofs about Tape, for every number of trades, copies and deliveries,   *)
(* every lookback, and any number of builds that overlap and run over      *)
(* midnight: a trade is on the tape once, hourly builds lose nothing, late *)
(* data in the window is picked up, no mart is ahead of the one above it,  *)
(* and a complete build leaves the marts of one mind.                      *)
(*                                                                         *)
(* What makes insert_overwrite safe is that a raw row never lands before   *)
(* its trade was made: a partition inside the window holds only rows that  *)
(* landed inside it, so that all of them are still visible when the        *)
(* partition is replaced.                                                  *)
(***************************************************************************)
EXTENDS Tape, LeastNumber

\* No day lies ahead of today; a row lands on or after the day of its trade.
DaysInOrder ==
    /\ \A t \in 1..Len(made) : made[t] <= today
    /\ \A b \in builtOn : b <= today
    /\ \A r \in raw : /\ r.trade <= Len(made)
                      /\ made[r.trade] <= r.day /\ r.day <= today

\* What is on the tape has landed.
TapeHasLanded ==
    \A d \in Days : \A s \in tape[d] : \E r \in raw : r.trade = s.trade /\ r.copy = s.copy

\* From the build that wrote fct_trades last building its bars to its end, they
\* are those of the tape, whatever other builds do to them meanwhile.
WriterHasBars ==
    \A b \in writer : step[b] \in {"test bars", "rollups"} =>
        \A d \in Window : bars[d] = TradesOf(tape[d])

TapeInv ==
    /\ TypeOK /\ DaysInOrder /\ TapeHasLanded
    /\ OneRowPerTrade /\ LateIsNotLost
    /\ NeverAhead /\ WriterHasBars /\ MartsAgree

-----------------------------------------------------------------------------
(* The constants, and the operators of the model. *)

LEMMA Constants ==
    /\ MaxTrade \in Nat /\ MaxCopies \in Nat /\ LastDay \in Nat /\ Lookback \in Nat
    /\ Trades \subseteq Nat /\ Copies \subseteq Nat /\ Days \subseteq Nat
BY TapeAssumption DEF Trades, Copies, Days

\* The type invariant, fact by fact.
LEMMA Types ==
    ASSUME TypeOK
    PROVE  /\ today \in Days /\ made \in Seq(Days) /\ Len(made) <= MaxTrade
           /\ raw \subseteq [trade : Trades, copy : Copies, day : Days]
           /\ buffer \subseteq raw
           /\ tape \in [Days -> SUBSET Rows]
           /\ bars \in [Days -> SUBSET Trades] /\ rolled \in [Days -> SUBSET Trades]
           /\ step \in [Builds -> Steps] /\ full \subseteq Builds /\ writer \subseteq Builds
           /\ \A d \in Days : \A s \in tape[d] : made[s.trade] = d
BY DEF TypeOK

\* A build takes its step, the others are where they were.
LEMMA Moves ==
    ASSUME TypeOK, NEW b \in Builds, NEW next \in Steps, Goto(b, next)
    PROVE  /\ step' \in [Builds -> Steps] /\ step'[b] = next
           /\ \A c \in Builds : c # b => step'[c] = step[c]
BY Types DEF Goto

\* A row is as early as itself.
LEMMA AsEarly == \A r \in Rows : r.copy <= r.copy
<1>1. \A r \in Rows : r.copy \in Nat
  BY Constants DEF Rows
<1> QED BY <1>1

\* A row that is visible has landed.
LEMMA VisibleHasLanded ==
    ASSUME TypeOK, NEW r \in Visible
    PROVE  /\ r \in raw /\ r.trade \in Trades /\ r.copy \in Copies
           /\ CopiesOf(r.trade) \subseteq Copies
           /\ r.copy \in CopiesOf(r.trade)
<1>1. \A v \in Visible : v \in raw /\ v.trade \in Trades /\ v.copy \in Copies
  BY Types DEF Visible
<1> QED BY <1>1 DEF CopiesOf

\* The dedupe keeps a copy that landed, and none earlier is visible.
LEMMA EarliestCopy ==
    ASSUME TypeOK, NEW r \in Visible
    PROVE  /\ Min(CopiesOf(r.trade)) \in CopiesOf(r.trade)
           /\ Min(CopiesOf(r.trade)) <= r.copy
           /\ \E v \in raw : v.trade = r.trade /\ v.copy = Min(CopiesOf(r.trade))
<1>1. CopiesOf(r.trade) \in SUBSET Nat /\ r.copy \in CopiesOf(r.trade)
  BY VisibleHasLanded, Constants
<1>2. /\ Min(CopiesOf(r.trade)) \in CopiesOf(r.trade)
      /\ \A c \in CopiesOf(r.trade) : Min(CopiesOf(r.trade)) <= c
  BY <1>1, MinIsLeast
<1>3. PICK v \in Visible : v.trade = r.trade /\ v.copy = Min(CopiesOf(r.trade))
  BY <1>2 DEF CopiesOf
<1> QED BY <1>1, <1>2, <1>3, VisibleHasLanded

\* stg_trades has one row per trade, which has landed, in its trade's partition;
\* and for whatever is visible it has a row that is as early.
LEMMA StagedRows ==
    ASSUME TypeOK
    PROVE  /\ StagedByDay \in [Days -> SUBSET Rows]
           /\ \A d \in Days : \A s \in StagedByDay[d] :
                /\ made[s.trade] = d
                /\ \E r \in raw : r.trade = s.trade /\ r.copy = s.copy
           /\ \A d \in Days : \A s, t \in StagedByDay[d] : s.trade = t.trade => s = t
           /\ \A r \in Visible : made[r.trade] \in Days =>
                \E s \in StagedByDay[made[r.trade]] : s.trade = r.trade /\ s.copy <= r.copy
<1>1. ASSUME NEW s \in Staged
      PROVE  /\ s \in Rows /\ s = [trade |-> s.trade, copy |-> Min(CopiesOf(s.trade))]
             /\ \E r \in raw : r.trade = s.trade /\ r.copy = s.copy
  <2>1. PICK r \in Visible : s = [trade |-> r.trade, copy |-> Min(CopiesOf(r.trade))]
    BY DEF Staged
  <2>2. r.trade \in Trades /\ Min(CopiesOf(r.trade)) \in Copies
    BY VisibleHasLanded, EarliestCopy
  <2> QED BY <2>1, <2>2, EarliestCopy DEF Rows
<1>2. \A d \in Days : StagedByDay[d] = {s \in Staged : made[s.trade] = d}
  BY DEF StagedByDay
<1>3. StagedByDay \in [Days -> SUBSET Rows]
  BY <1>1 DEF StagedByDay
<1>4. ASSUME NEW r \in Visible, made[r.trade] \in Days
      PROVE  \E s \in StagedByDay[made[r.trade]] : s.trade = r.trade /\ s.copy <= r.copy
  <2> DEFINE s == [trade |-> r.trade, copy |-> Min(CopiesOf(r.trade))]
  <2>1. s \in Staged
    BY DEF Staged
  <2>2. s.trade = r.trade /\ s.copy <= r.copy
    BY EarliestCopy
  <2> QED BY <1>2, <1>4, <2>1, <2>2
<1>5. \A d \in Days : \A s, t \in StagedByDay[d] : s.trade = t.trade => s = t
  BY <1>1, <1>2, Zenon
<1> QED BY <1>1, <1>2, <1>3, <1>4, <1>5

-----------------------------------------------------------------------------
(* Building the tape. *)

\* The heart of it: a partition inside the window, or any that an hourly build
\* replaces, keeps its trades, each as early or earlier.
LEMMA TapeImproves ==
    ASSUME TypeOK, DaysInOrder, TapeHasLanded, NEW b \in Builds, BuildTrades(b),
           NEW d \in Days, b \notin full \/ d >= today - Lookback, NEW r \in tape[d]
    PROVE  \E s \in tape'[d] : s.trade = r.trade /\ s.copy <= r.copy
<1>1. tape'[d] = IF b \in full \/ (d >= today - Lookback /\ StagedByDay[d] # {})
                 THEN StagedByDay[d] ELSE tape[d]
  BY DEF BuildTrades, Materialized
<1>2. r \in Rows /\ made[r.trade] = d
  BY Types
<1>3. CASE d >= today - Lookback
  <2>1. PICK v \in raw : v.trade = r.trade /\ v.copy = r.copy
    BY DEF TapeHasLanded
  <2>2. v.day >= d /\ v.day \in Nat /\ d \in Nat /\ today \in Nat
    <3>1. v.day \in Days /\ d \in Days /\ today \in Days
      BY <2>1, Types
    <3>2. made[v.trade] <= v.day /\ made[v.trade] = d
      BY <1>2, <2>1 DEF DaysInOrder
    <3> QED BY <3>1, <3>2, Constants
  <2>3. v \in Visible
    BY <1>3, <2>2, Constants DEF Visible
  <2>4. PICK s \in StagedByDay[d] : s.trade = r.trade /\ s.copy <= r.copy
    BY <1>2, <2>1, <2>3, StagedRows
  <2> QED BY <1>1, <1>3, <2>4
<1>4. CASE ~ (d >= today - Lookback)
  <2>1. tape'[d] = tape[d]
    BY <1>1, <1>4
  <2> QED BY <1>2, <2>1, AsEarly
<1> QED BY <1>3, <1>4

\* What a build puts on the tape.
LEMMA BuiltTape ==
    ASSUME TypeOK, OneRowPerTrade, TapeHasLanded, NEW b \in Builds, BuildTrades(b)
    PROVE  /\ tape' \in [Days -> SUBSET Rows]
           /\ \A d \in Days : \A s \in tape'[d] :
                made[s.trade] = d /\ \E r \in raw : r.trade = s.trade /\ r.copy = s.copy
           /\ \A d \in Days : \A s, t \in tape'[d] : s.trade = t.trade => s = t
<1>1. \A d \in Days : tape'[d] = StagedByDay[d] \/ tape'[d] = tape[d]
  BY DEF BuildTrades, Materialized
<1>2. tape' = [d \in Days |-> tape'[d]]
  BY DEF BuildTrades, Materialized
<1>3. \A d \in Days : tape[d] \in SUBSET Rows /\ StagedByDay[d] \in SUBSET Rows
  BY Types, StagedRows
<1>4. tape' \in [Days -> SUBSET Rows]
  BY <1>1, <1>2, <1>3
<1>5. \A d \in Days : \A s \in tape[d] :
        made[s.trade] = d /\ \E r \in raw : r.trade = s.trade /\ r.copy = s.copy
  BY Types DEF TapeHasLanded
<1>6. \A d \in Days : \A s, t \in tape[d] : s.trade = t.trade => s = t
  BY DEF OneRowPerTrade
<1> QED BY <1>1, <1>4, <1>5, <1>6, StagedRows

-----------------------------------------------------------------------------
(* The invariant. *)

LEMMA InitInv == Init => TapeInv
<1> SUFFICES ASSUME Init PROVE TapeInv
  OBVIOUS
<1> USE DEF Init, NoRows
<1>1. TypeOK
  <2>1. 0 \in Days
    BY TapeAssumption DEF Days
  <2>2. << >> \in Seq(Days) /\ Len(<< >>) = 0
    OBVIOUS
  <2> QED BY <2>1, <2>2, Constants DEF TypeOK, Never, Steps
<1>2. DaysInOrder
  BY DEF DaysInOrder
<1>3. TapeHasLanded /\ OneRowPerTrade
  BY DEF TapeHasLanded, OneRowPerTrade
<1>4. LateIsNotLost /\ MartsAgree /\ WriterHasBars
  BY DEF LateIsNotLost, MartsAgree, WriterHasBars, Never
<1>5. NeverAhead
  BY DEF NeverAhead, Window
<1> QED BY <1>1, <1>2, <1>3, <1>4, <1>5 DEF TapeInv

\* Steps that leave the marts, the raw rows and the builds alone.
LEMMA TradeKeeps == TapeInv /\ Trade => TapeInv'
<1> SUFFICES ASSUME TapeInv, Trade PROVE TapeInv'
  OBVIOUS
<1>1. TypeOK /\ DaysInOrder /\ TapeHasLanded
  BY DEF TapeInv
<1>2. /\ made' = Append(made, today) /\ Len(made) < MaxTrade
      /\ UNCHANGED <<today, raw, buffer, tape, bars, rolled, step, full, builtOn,
                     writer, ended, refreshed>>
  BY DEF Trade, rawVars, martVars, buildVars, historyVars
<1>3. /\ made' \in Seq(Days) /\ Len(made') = Len(made) + 1 /\ Len(made) \in Nat
      /\ made'[Len(made) + 1] = today
      /\ \A t \in 1..Len(made) : made'[t] = made[t]
  BY <1>1, <1>2, Types
<1>4. \A r \in raw : r.trade \in 1..Len(made) /\ made'[r.trade] = made[r.trade]
  <2>1. \A r \in raw : r.trade \in Nat /\ r.trade >= 1 /\ r.trade <= Len(made)
    BY <1>1, Types DEF Trades, DaysInOrder
  <2> QED BY <1>3, <2>1
<1>5. \A d \in Days : \A s \in tape[d] : made'[s.trade] = made[s.trade]
  BY <1>1, <1>4 DEF TapeHasLanded
<1>6. TypeOK'
  <2>1. made' \in Seq(Days) /\ Len(made') <= MaxTrade
    BY <1>2, <1>3, Constants
  <2>2. \A d \in Days : \A s \in tape[d] : made'[s.trade] = d
    BY <1>1, <1>5, Types
  <2> QED BY <1>1, <1>2, <2>1, <2>2 DEF TypeOK
<1>7. DaysInOrder'
  <2>1. \A t \in 1..Len(made') : made'[t] <= today'
    <3>1. today \in Days
      BY <1>1, Types
    <3>2. today \in Nat
      BY <3>1, Constants
    <3> QED BY <1>1, <1>2, <1>3, <3>2 DEF DaysInOrder
  <2>2. \A r \in raw : /\ r.trade <= Len(made')
                       /\ made'[r.trade] <= r.day /\ r.day <= today'
    BY <1>1, <1>2, <1>3, <1>4 DEF DaysInOrder
  <2> QED BY <1>1, <1>2, <2>1, <2>2 DEF DaysInOrder
<1>8. TapeHasLanded' /\ OneRowPerTrade' /\ NeverAhead' /\ WriterHasBars' /\ MartsAgree'
  BY <1>2 DEF TapeInv, TapeHasLanded, OneRowPerTrade, NeverAhead, WriterHasBars, Window,
              MartsAgree, TradesOf
<1>9. LateIsNotLost'
  BY <1>2, <1>4 DEF TapeInv, LateIsNotLost, TradesOf
<1> QED BY <1>6, <1>7, <1>8, <1>9 DEF TapeInv

LEMMA LandKeeps ==
    ASSUME TapeInv, NEW t \in Trades, NEW c \in Copies, Land(t, c)
    PROVE  TapeInv'
<1> DEFINE row == [trade |-> t, copy |-> c, day |-> today]
<1>1. TypeOK /\ DaysInOrder /\ TapeHasLanded
  BY DEF TapeInv
<1>2. /\ t <= Len(made)
      /\ raw' = raw \union {row} /\ buffer' = buffer \union {row}
      /\ UNCHANGED <<today, made, tape, bars, rolled, step, full, builtOn, writer, ended,
                     refreshed>>
  BY DEF Land, martVars, buildVars, historyVars
<1>3. row \in [trade : Trades, copy : Copies, day : Days]
  BY <1>1, Types
<1>4. TypeOK'
  BY <1>1, <1>2, <1>3 DEF TypeOK
<1>5. made[t] <= today /\ today <= today
  <2>1. t \in 1..Len(made) /\ today \in Nat
    <3>1. made \in Seq(Days) /\ today \in Days /\ MaxTrade \in Nat /\ t \in 1..MaxTrade
      BY <1>1, Types, Constants DEF Trades
    <3>2. Len(made) \in Nat
      BY <3>1
    <3> QED BY <1>2, <3>1, <3>2, Constants
  <2> QED BY <1>1, <2>1 DEF DaysInOrder
<1>6. DaysInOrder'
  BY <1>1, <1>2, <1>5 DEF DaysInOrder
<1>7. TapeHasLanded' /\ OneRowPerTrade' /\ NeverAhead' /\ WriterHasBars' /\ MartsAgree'
  BY <1>2 DEF TapeInv, TapeHasLanded, OneRowPerTrade, NeverAhead, WriterHasBars, Window,
              MartsAgree, TradesOf
<1>8. LateIsNotLost'
  <2>1. \A b \in builtOn : ~ (row.day < b)
    <3>1. \A b \in builtOn : b \in Nat /\ b <= today /\ today \in Nat
      BY <1>1, Types, Constants DEF TypeOK, DaysInOrder
    <3> QED BY <3>1
  <2> QED BY <1>2, <2>1 DEF TapeInv, LateIsNotLost, TradesOf
<1> QED BY <1>4, <1>6, <1>7, <1>8 DEF TapeInv

LEMMA CommitKeeps == TapeInv /\ Commit => TapeInv'
<1> SUFFICES ASSUME TapeInv, Commit PROVE TapeInv'
  OBVIOUS
<1>1. /\ UNCHANGED <<today, made, raw, tape, bars, rolled, step, full, builtOn, writer,
                     ended, refreshed>>
      /\ buffer' \subseteq buffer
  BY DEF Commit, martVars, buildVars, historyVars
<1>2. TypeOK'
  BY <1>1 DEF TapeInv, TypeOK
<1>3. /\ DaysInOrder' /\ TapeHasLanded' /\ OneRowPerTrade' /\ LateIsNotLost'
      /\ NeverAhead' /\ WriterHasBars' /\ MartsAgree'
  BY <1>1 DEF TapeInv, DaysInOrder, TapeHasLanded, OneRowPerTrade, LateIsNotLost,
              NeverAhead, WriterHasBars, Window, MartsAgree, TradesOf
<1> QED BY <1>2, <1>3 DEF TapeInv

LEMMA MidnightKeeps == TapeInv /\ Midnight => TapeInv'
<1> SUFFICES ASSUME TapeInv, Midnight PROVE TapeInv'
  OBVIOUS
<1>1. /\ UNCHANGED <<made, raw, buffer, tape, bars, rolled, step, full, builtOn,
                     writer, ended, refreshed>>
      /\ today' = today + 1 /\ today < LastDay
  BY DEF Midnight, rawVars, martVars, buildVars, historyVars
<1>2. today \in Nat /\ today' \in Days /\ Days \subseteq Nat
  BY <1>1, Constants, Types DEF TapeInv, Days
<1>3. TypeOK'
  BY <1>1, <1>2 DEF TapeInv, TypeOK
<1>4. DaysInOrder'
  <2>1. /\ \A t \in 1..Len(made) : made[t] \in Nat
        /\ \A b \in builtOn : b \in Nat
        /\ \A r \in raw : r.day \in Nat
    <3>1. made \in Seq(Days) /\ builtOn \subseteq Days
      BY DEF TapeInv, TypeOK
    <3>2. \A t \in 1..Len(made) : made[t] \in Days
      BY <3>1
    <3>3. \A r \in raw : r.day \in Days
      BY Types DEF TapeInv
    <3> QED BY <1>2, <3>1, <3>2, <3>3
  <2> QED BY <1>1, <1>2, <2>1 DEF TapeInv, DaysInOrder
<1>5. TapeHasLanded' /\ OneRowPerTrade' /\ LateIsNotLost' /\ MartsAgree'
  BY <1>1 DEF TapeInv, TapeHasLanded, OneRowPerTrade, LateIsNotLost, MartsAgree, TradesOf
<1>6. NeverAhead' /\ WriterHasBars'
  <2>1. \A d \in Days : d >= today' - Lookback => d >= today - Lookback
    BY <1>1, <1>2, Constants
  <2>2. Window' \subseteq Window
    BY <2>1 DEF Window
  <2> QED BY <1>1, <2>2 DEF TapeInv, NeverAhead, WriterHasBars, TradesOf
<1> QED BY <1>3, <1>4, <1>5, <1>6 DEF TapeInv

-----------------------------------------------------------------------------
(* The steps of a build. *)

\* Steps that only move a build on: its start, a test that passes, one that fails.
\* None of them comes to the bars' test from elsewhere.
LEMMA MoveKeeps ==
    ASSUME TapeInv, NEW b \in Builds, Start(b) \/ TestBars(b) \/ TestsFail(b)
    PROVE  TapeInv'
<1>1. /\ UNCHANGED <<today, made, raw, buffer, tape, bars, rolled, builtOn, writer, ended,
                     refreshed>>
      /\ full' \subseteq full \union {b}
      /\ \E next \in Steps :
            /\ Goto(b, next)
            /\ next \in {"test bars", "rollups"} => step[b] = "test bars"
  BY DEF Start, TestBars, TestsFail, Ends, rawVars, martVars, historyVars, Steps
<1>2. TypeOK /\ step' \in [Builds -> Steps] /\ writer \subseteq Builds
      /\ \A c \in Builds : step'[c] \in {"test bars", "rollups"} =>
            step[c] \in {"test bars", "rollups"}
  BY <1>1, Moves, Types DEF TapeInv
<1>3. TypeOK'
  BY <1>1, <1>2 DEF TypeOK
<1>4. DaysInOrder' /\ TapeHasLanded' /\ OneRowPerTrade' /\ LateIsNotLost' /\ NeverAhead'
      /\ MartsAgree'
  BY <1>1 DEF TapeInv, DaysInOrder, TapeHasLanded, OneRowPerTrade, LateIsNotLost,
              NeverAhead, Window, MartsAgree, TradesOf
<1>5. WriterHasBars'
  BY <1>1, <1>2 DEF TapeInv, WriterHasBars, Window, TradesOf
<1> QED BY <1>3, <1>4, <1>5 DEF TapeInv

\* fct_trades: the tape improves inside the window, and gains what is visible.
LEMMA BuildTradesKeeps ==
    ASSUME TapeInv, NEW b \in Builds, BuildTrades(b)
    PROVE  TapeInv'
<1>1. TypeOK /\ DaysInOrder /\ TapeHasLanded /\ OneRowPerTrade
  BY DEF TapeInv
<1>2. /\ UNCHANGED <<today, made, raw, buffer, bars, rolled, full>>
      /\ tape' = Materialized(b, tape, StagedByDay)
      /\ Goto(b, "bars") /\ builtOn' = builtOn \union {today}
      /\ writer' = {b} /\ ended' = Never
      /\ refreshed' = (refreshed \/ b \in full)
  BY DEF BuildTrades, rawVars
<1>3. today \in Days /\ today \in Nat
  BY <1>1, Types, Constants
<1>4. /\ tape' \in [Days -> SUBSET Rows]
      /\ \A d \in Days : \A s \in tape'[d] :
            made[s.trade] = d /\ \E r \in raw : r.trade = s.trade /\ r.copy = s.copy
      /\ \A d \in Days : \A s, t \in tape'[d] : s.trade = t.trade => s = t
  BY <1>1, BuiltTape
<1>5. step' \in [Builds -> Steps] /\ step'[b] = "bars"
  BY <1>1, <1>2, Moves DEF Steps
<1>6. TypeOK'
  BY <1>1, <1>2, <1>3, <1>4, <1>5 DEF TypeOK
<1>7. DaysInOrder'
  BY <1>1, <1>2, <1>3 DEF DaysInOrder
<1>8. TapeHasLanded' /\ OneRowPerTrade'
  <2>1. TapeHasLanded'
    BY <1>2, <1>4 DEF TapeHasLanded
  <2>2. OneRowPerTrade'
    BY <1>4 DEF OneRowPerTrade
  <2> QED BY <2>1, <2>2
<1>9. \A d \in Days : b \notin full \/ d >= today - Lookback =>
        TradesOf(tape[d]) \subseteq TradesOf(tape'[d])
  BY <1>1, TapeImproves DEF TradesOf
<1>10. NeverAhead'
  <2>1. Window' = Window /\ Window \subseteq Days
    BY <1>2 DEF Window
  <2>2. \A d \in Window : TradesOf(tape[d]) \subseteq TradesOf(tape'[d])
    BY <1>9 DEF Window
  <2> QED BY <1>2, <2>1, <2>2 DEF TapeInv, NeverAhead
<1>11. LateIsNotLost'
  <2> SUFFICES ASSUME ~refreshed', NEW r \in raw, NEW e \in builtOn',
                      r.day < e, e <= made[r.trade] + Lookback
               PROVE  r.trade \in TradesOf(tape'[made[r.trade]])
    BY <1>2 DEF LateIsNotLost
  <2>1. ~refreshed /\ b \notin full
    BY <1>1, <1>2 DEF TypeOK
  <2>2. made[r.trade] \in Days /\ r.trade \in Trades
    <3>1. r.trade \in Nat /\ r.trade >= 1 /\ r.trade <= Len(made) /\ r.trade \in Trades
      BY <1>1, Types DEF DaysInOrder, Trades
    <3> QED BY <1>1, <3>1, Types
  <2>3. CASE e \in builtOn
    <3>1. r.trade \in TradesOf(tape[made[r.trade]])
      BY <2>1, <2>3 DEF TapeInv, LateIsNotLost
    <3> QED BY <1>9, <2>1, <2>2, <3>1
  <2>4. CASE e = today
    <3>1. made[r.trade] <= r.day /\ r.day \in Days
      BY <1>1, Types DEF DaysInOrder
    <3>2. made[r.trade] >= today - Lookback /\ r.day >= today - Lookback
      <4>1. made[r.trade] \in Nat /\ r.day \in Nat /\ Lookback \in Nat
        BY <2>2, <3>1, Constants
      <4> QED BY <1>3, <2>4, <3>1, <4>1
    <3>3. r \in Visible
      BY <3>2 DEF Visible
    <3>4. PICK s \in StagedByDay[made[r.trade]] : s.trade = r.trade
      BY <1>1, <2>2, <3>3, StagedRows
    <3>5. tape'[made[r.trade]] = StagedByDay[made[r.trade]]
      BY <1>2, <2>2, <3>2, <3>4 DEF Materialized
    <3> QED BY <3>4, <3>5 DEF TradesOf
  <2> QED BY <1>2, <2>3, <2>4
<1>12. WriterHasBars' /\ MartsAgree'
  BY <1>2, <1>5 DEF WriterHasBars, MartsAgree
<1> QED BY <1>6, <1>7, <1>8, <1>10, <1>11, <1>12 DEF TapeInv

\* fct_bars_1m: a day has the tape's trades or the bars it had, and inside the
\* window the former, also where the tape has none.
LEMMA BuildBarsKeeps ==
    ASSUME TapeInv, NEW b \in Builds, BuildBars(b)
    PROVE  TapeInv'
<1>1. /\ UNCHANGED <<today, made, raw, buffer, tape, rolled, full, builtOn, writer, ended,
                     refreshed>>
      /\ bars' = Materialized(b, bars, TradesByDay) /\ Goto(b, "test bars")
  BY DEF BuildBars, rawVars, historyVars
<1>2. \A d \in Days : bars'[d] = TradesOf(tape[d]) \/ bars'[d] = bars[d]
  BY <1>1 DEF Materialized, TradesByDay
<1>3. TypeOK'
  <2>1. \A d \in Days : TradesOf(tape[d]) \in SUBSET Trades /\ bars[d] \in SUBSET Trades
    BY Types DEF TapeInv, TradesOf, Rows
  <2>2. bars' = [d \in Days |-> bars'[d]]
    BY <1>1 DEF Materialized
  <2>3. bars' \in [Days -> SUBSET Trades]
    BY <1>2, <2>1, <2>2
  <2>4. step' \in [Builds -> Steps]
    BY <1>1, Moves DEF TapeInv, Steps
  <2> QED BY <1>1, <2>3, <2>4 DEF TapeInv, TypeOK
<1>4. DaysInOrder' /\ TapeHasLanded' /\ OneRowPerTrade' /\ LateIsNotLost'
  BY <1>1 DEF TapeInv, DaysInOrder, TapeHasLanded, OneRowPerTrade, LateIsNotLost, TradesOf
<1>5. /\ Window' = Window /\ Window \subseteq Days
      /\ \A d \in Window : bars'[d] = TradesOf(tape[d]) /\ bars[d] \subseteq bars'[d]
  <2>1. Window' = Window /\ \A d \in Window : d \in Days /\ d >= today - Lookback
    BY <1>1 DEF Window
  <2>2. ASSUME NEW d \in Window PROVE bars'[d] = TradesOf(tape[d])
    <3>1. bars[d] \subseteq TradesOf(tape[d])
      BY DEF TapeInv, NeverAhead
    <3>2. TradesOf(tape[d]) # {} => bars'[d] = TradesOf(tape[d])
      BY <1>1, <2>1 DEF Materialized, TradesByDay
    <3> QED BY <1>2, <2>1, <3>1, <3>2
  <2> QED BY <2>1, <2>2 DEF TapeInv, NeverAhead
<1>6. NeverAhead' /\ WriterHasBars'
  BY <1>1, <1>5 DEF TapeInv, NeverAhead, WriterHasBars, TradesOf
<1>7. MartsAgree'
  <2> SUFFICES ASSUME ended # Never, NEW d \in Days, d >= ended - Lookback
               PROVE  bars'[d] = TradesOf(tape[d]) /\ rolled[d] = bars'[d]
    BY <1>1 DEF MartsAgree, TradesOf
  <2> QED BY <1>2 DEF TapeInv, MartsAgree
<1> QED BY <1>3, <1>4, <1>6, <1>7 DEF TapeInv

\* fct_bars_5m and fct_bars_1h: inside the window they agree with the bars, also
\* about the days that have none.
LEMMA BuildRollupsKeeps ==
    ASSUME TapeInv, NEW b \in Builds, BuildRollups(b)
    PROVE  TapeInv'
<1>1. /\ UNCHANGED <<today, made, raw, buffer, tape, bars, builtOn, writer, refreshed>>
      /\ rolled' = Materialized(b, rolled, bars)
      /\ step[b] = "rollups" /\ Goto(b, "idle") /\ full' = full \ {b}
      /\ ended' = IF b \in writer THEN today ELSE ended
  BY DEF BuildRollups, Ends, rawVars
<1>2. \A d \in Days : rolled'[d] = bars[d] \/ rolled'[d] = rolled[d]
  BY <1>1 DEF Materialized
<1>3. /\ step' \in [Builds -> Steps] /\ writer \subseteq Builds
      /\ step'[b] = "idle" /\ \A c \in Builds : c # b => step'[c] = step[c]
  BY <1>1, Moves, Types DEF TapeInv, Steps
<1>4. TypeOK'
  <2>1. \A d \in Days : bars[d] \in SUBSET Trades /\ rolled[d] \in SUBSET Trades
    BY Types DEF TapeInv
  <2>2. rolled' = [d \in Days |-> rolled'[d]]
    BY <1>1 DEF Materialized
  <2>3. rolled' \in [Days -> SUBSET Trades]
    BY <1>2, <2>1, <2>2
  <2>4. ended' \in Days \union {Never}
    BY <1>1 DEF TapeInv, TypeOK
  <2> QED BY <1>1, <1>3, <2>3, <2>4 DEF TapeInv, TypeOK
<1>5. DaysInOrder' /\ TapeHasLanded' /\ OneRowPerTrade' /\ LateIsNotLost'
  BY <1>1 DEF TapeInv, DaysInOrder, TapeHasLanded, OneRowPerTrade, LateIsNotLost, TradesOf
<1>6. /\ Window' = Window
      /\ \A d \in Window : d \in Days /\ d >= today - Lookback /\ rolled'[d] = bars[d]
  <2>1. Window' = Window /\ \A d \in Window : d \in Days /\ d >= today - Lookback
    BY <1>1 DEF Window
  <2>2. ASSUME NEW d \in Window PROVE rolled'[d] = bars[d]
    <3>1. rolled[d] \subseteq bars[d]
      BY DEF TapeInv, NeverAhead
    <3>2. bars[d] # {} => rolled'[d] = bars[d]
      BY <1>1, <2>1 DEF Materialized
    <3> QED BY <1>2, <2>1, <3>1, <3>2
  <2> QED BY <2>1, <2>2
<1>7. NeverAhead'
  BY <1>1, <1>6 DEF TapeInv, NeverAhead, TradesOf
<1>8. WriterHasBars'
  BY <1>1, <1>3, <1>6 DEF TapeInv, WriterHasBars, TradesOf
<1>9. MartsAgree'
  <2>1. CASE b \in writer
    <3>1. \A d \in Window : bars[d] = TradesOf(tape[d])
      BY <1>1, <2>1 DEF TapeInv, WriterHasBars
    <3> QED BY <1>1, <1>6, <2>1, <3>1 DEF MartsAgree, Window, TradesOf
  <2>2. CASE b \notin writer
    BY <1>1, <1>2, <2>2 DEF TapeInv, MartsAgree, TradesOf
  <2> QED BY <2>1, <2>2
<1> QED BY <1>4, <1>5, <1>7, <1>8, <1>9 DEF TapeInv

LEMMA NextInv == TapeInv /\ [Next]_vars => TapeInv'
<1> SUFFICES ASSUME TapeInv, [Next]_vars PROVE TapeInv'
  OBVIOUS
<1>1. CASE UNCHANGED vars
  <2>1. UNCHANGED <<today, made, raw, buffer, tape, bars, rolled, step, full, builtOn,
                    writer, ended, refreshed>>
    BY <1>1 DEF vars, rawVars, martVars, buildVars, historyVars
  <2>2. TypeOK' /\ DaysInOrder' /\ TapeHasLanded' /\ OneRowPerTrade' /\ LateIsNotLost'
    BY <2>1 DEF TapeInv, TypeOK, DaysInOrder, TapeHasLanded, OneRowPerTrade, LateIsNotLost,
                TradesOf
  <2>3. NeverAhead' /\ WriterHasBars' /\ MartsAgree'
    BY <2>1 DEF TapeInv, NeverAhead, WriterHasBars, Window, MartsAgree, TradesOf
  <2> QED BY <2>2, <2>3 DEF TapeInv
<1>2. CASE \E t \in Trades, c \in Copies : Land(t, c)
  BY <1>2, LandKeeps
<1>3. CASE \E b \in Builds : BuildStep(b)
  <2>1. PICK b \in Builds : BuildStep(b)
    BY <1>3
  <2>2. Start(b) \/ TestBars(b) \/ TestsFail(b) \/ BuildTrades(b) \/ BuildBars(b)
        \/ BuildRollups(b)
    BY <2>1 DEF BuildStep
  <2> QED BY <2>2, MoveKeeps, BuildTradesKeeps, BuildBarsKeeps, BuildRollupsKeeps
<1> QED BY <1>1, <1>2, <1>3, TradeKeeps, CommitKeeps, MidnightKeeps DEF Next

LEMMA Invariance == Spec => []TapeInv
<1> QED BY InitInv, NextInv, PTL DEF Spec

-----------------------------------------------------------------------------
(* The theorems. *)

\* The tables keep their shape, and every row lies in its trade's partition.
THEOREM TapeTypeCorrect == Spec => []TypeOK
<1>1. TapeInv => TypeOK
  BY DEF TapeInv
<1> QED BY <1>1, Invariance, PTL

\* However often a trade is published, replayed, backfilled and delivered,
\* fct_trades has one row for it.
THEOREM TradeOnTapeOnce == Spec => []OneRowPerTrade
<1>1. TapeInv => OneRowPerTrade
  BY DEF TapeInv
<1> QED BY <1>1, Invariance, PTL

\* Without a full refresh, what landed before a build whose window holds the
\* trade's day is on the tape, then and ever after.
THEOREM LateDataKept == Spec => []LateIsNotLost
<1>1. TapeInv => LateIsNotLost
  BY DEF TapeInv
<1> QED BY <1>1, Invariance, PTL

\* In no state of any number of builds, overlapping, cut short or overnight, has a
\* coarse bar of the window what the one-minute bars lack, or a bar what the tape does.
THEOREM MartsNeverAhead == Spec => []NeverAhead
<1>1. TapeInv => NeverAhead
  BY DEF TapeInv
<1> QED BY <1>1, Invariance, PTL

\* Whatever other builds run beside it, the build that wrote fct_trades last leaves
\* tape, bars and roll-ups of one mind about the days of its window when it ends.
THEOREM LastWriterAgrees == Spec => []MartsAgree
<1>1. TapeInv => MartsAgree
  BY DEF TapeInv
<1> QED BY <1>1, Invariance, PTL

\* No step but one of a full refresh takes a trade off the tape or replaces a row by
\* a later copy.
THEOREM HourlyBuildsImprove == Spec => TapeOnlyImproves
<1> DEFINE Improves == \A d \in Days : \A r \in tape[d] :
                          \E s \in tape'[d] : s.trade = r.trade /\ s.copy <= r.copy
<1>1. ASSUME TapeInv, [Next]_vars, ~RefreshSteps PROVE Improves
  <2>1. CASE \E b \in Builds : BuildTrades(b)
    <3>1. PICK b \in Builds : BuildTrades(b)
      BY <2>1
    <3>2. step[b] = "trades" /\ step'[b] = "bars"
      BY <1>1, <3>1, Moves DEF TapeInv, BuildTrades, Steps
    <3>3. b \notin full
      BY <1>1, <3>2 DEF RefreshSteps
    <3> QED BY <1>1, <3>1, <3>3, TapeImproves DEF TapeInv
  <2>2. CASE tape' = tape
    <3>1. \A d \in Days : \A r \in tape[d] : r \in Rows
      BY <1>1, Types DEF TapeInv
    <3> QED BY <2>2, <3>1, AsEarly
  <2>3. (\E b \in Builds : BuildTrades(b)) \/ tape' = tape
    BY <1>1 DEF Next, Trade, Land, Commit, Midnight, BuildStep, Start, BuildBars, TestBars,
                BuildRollups, TestsFail, vars, martVars
  <2> QED BY <2>1, <2>2, <2>3
<1>2. TapeInv /\ [Next]_vars => [~RefreshSteps => Improves]_vars
  BY <1>1
<1> QED BY <1>2, Invariance, PTL DEF Spec, TapeOnlyImproves
=============================================================================
