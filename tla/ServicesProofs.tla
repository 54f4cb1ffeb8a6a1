--------------------------- MODULE ServicesProofs ---------------------------
(***************************************************************************)
(* The promise chain is a first-in first-out lock, for any set of calls    *)
(* and portfolios; no login process outlives its pairing, for any number   *)
(* of pairings and verifies; and a loan is settled once, for any contract, *)
(* repayments and requests.                                                *)
(***************************************************************************)
EXTENDS MCServices, FiniteSetTheorems, TLAPS

Asking == {c \in Calls : pc[c] \in {"waiting", "running"}}

(* asked[p] lists the calls of p that have asked and not settled, once.    *)
Listed ==
    \A p \in Portfolios : \A i \in 1 .. Len(asked[p]) :
        asked[p][i] \in Asking /\ of[asked[p][i]] = p
AllListed ==
    \A c \in Asking : \E i \in 1 .. Len(asked[of[c]]) : asked[of[c]][i] = c
Once ==
    \A p \in Portfolios : \A i, j \in 1 .. Len(asked[p]) :
        asked[p][i] = asked[p][j] => i = j

(* Each of them waits for the one before it, and the first for nobody.     *)
Chained ==
    \A p \in Portfolios : \A i \in 2 .. Len(asked[p]) :
        prev[asked[p][i]] = asked[p][i - 1]
FirstIsFree ==
    \A p \in Portfolios : asked[p] # <<>> => prev[asked[p][1]] \in Settled
RunnersAreFree ==
    \A c \in Running : prev[c] \in Settled

(* The map holds the newest, and only calls of the portfolio.              *)
NewestInMap ==
    \A p \in Portfolios : asked[p] # <<>> => tails[p] = asked[p][Len(asked[p])]
MapOfPortfolio ==
    \A p \in Portfolios :
        tails[p] # NoCall => pc[tails[p]] # "idle" /\ of[tails[p]] = p

ChainInv ==
    /\ ChainTypeOK
    /\ Listed /\ AllListed /\ Once
    /\ Chained /\ FirstIsFree /\ RunnersAreFree
    /\ NewestInMap /\ MapOfPortfolio

-----------------------------------------------------------------------------
(* A call that waits for nobody is the first of its portfolio's list.      *)
LEMMA FreeIsFirst ==
    ASSUME NEW c \in Calls, ChainInv, c \in Asking, prev[c] \in Settled
    PROVE  asked[of[c]] # <<>> /\ asked[of[c]][1] = c
<1>0. asked[of[c]] \in Seq(Calls) /\ of[c] \in Portfolios
  BY DEF ChainInv, ChainTypeOK
<1>1. PICK i \in 1 .. Len(asked[of[c]]) : asked[of[c]][i] = c
  BY DEF ChainInv, AllListed
<1>2. ASSUME i # 1 PROVE FALSE
  <2>1. i \in 2 .. Len(asked[of[c]]) /\ i - 1 \in 1 .. Len(asked[of[c]])
    BY <1>0, <1>2
  <2>2. prev[c] = asked[of[c]][i - 1]
    BY <1>0, <1>1, <2>1 DEF ChainInv, Chained
  <2>3. asked[of[c]][i - 1] \in Asking
    BY <1>0, <2>1 DEF ChainInv, Listed
  <2>. QED  BY <2>2, <2>3, NoCallAssumption DEF Asking, Settled
<1>. QED  BY <1>0, <1>1, <1>2

(* The functions of one portfolio run one at a time.                       *)
LEMMA InvExcludes == ChainInv => OneAtATime
<1>. SUFFICES ASSUME ChainInv, NEW c \in Running, NEW d \in Running, of[c] = of[d]
              PROVE  c = d
  BY DEF OneAtATime
<1>1. c \in Asking /\ d \in Asking /\ c \in Calls /\ d \in Calls
  BY DEF Running, Asking
<1>2. prev[c] \in Settled /\ prev[d] \in Settled
  BY DEF ChainInv, RunnersAreFree
<1>. QED  BY <1>1, <1>2, FreeIsFirst

LEMMA InvInit == ChainInit => ChainInv
  BY DEF ChainInit, ChainInv, ChainTypeOK, Listed, AllListed, Once, Chained,
         FirstIsFree, RunnersAreFree, NewestInMap, MapOfPortfolio, Asking, Running

-----------------------------------------------------------------------------
LEMMA AskKeeps ==
    ASSUME NEW c \in Calls, ChainInv, Ask(c)
    PROVE  ChainInv'
<1>. DEFINE p == of[c]
<1>0. p \in Portfolios /\ asked[p] \in Seq(Calls) /\ ChainTypeOK /\ pc[c] = "idle"
  BY DEF ChainInv, ChainTypeOK, Ask
<1>1. ChainTypeOK'
  BY <1>0 DEF ChainTypeOK, Ask
<1>2. /\ asked'[p] = Append(asked[p], c)
      /\ \A q \in Portfolios : q # p => asked'[q] = asked[q]
      /\ of' = of
      /\ tails'[p] = c /\ \A q \in Portfolios : q # p => tails'[q] = tails[q]
  BY <1>0 DEF Ask, ChainTypeOK
<1>3. /\ pc'[c] = "waiting" /\ prev'[c] = tails[p]
      /\ \A d \in Calls : d # c => pc'[d] = pc[d] /\ prev'[d] = prev[d]
  BY <1>0 DEF Ask, ChainTypeOK
<1>4. /\ Len(asked[p]) \in Nat
      /\ Len(asked'[p]) = Len(asked[p]) + 1 /\ asked'[p][Len(asked[p]) + 1] = c
      /\ \A i \in 1 .. Len(asked[p]) : asked'[p][i] = asked[p][i]
  BY <1>0, <1>2
<1>5. Asking' = Asking \cup {c} /\ Settled' = Settled /\ Running' = Running
  BY <1>0, <1>3 DEF Asking, Settled, Running
<1>6. \A q \in Portfolios : \A i \in 1 .. Len(asked[q]) : asked[q][i] # c
  BY <1>0 DEF ChainInv, Listed, Asking
<1>7. Listed'
  <2>. SUFFICES ASSUME NEW q \in Portfolios, NEW i \in 1 .. Len(asked'[q])
                PROVE  asked'[q][i] \in Asking' /\ of[asked'[q][i]] = q
    BY <1>2 DEF Listed
  <2>1. CASE q # p
    BY <1>2, <1>5, <2>1 DEF ChainInv, Listed
  <2>2. CASE q = p /\ i # Len(asked[p]) + 1
    <3>1. i \in 1 .. Len(asked[p])
      BY <1>4, <2>2
    <3>. QED  BY <1>4, <1>5, <2>2, <3>1 DEF ChainInv, Listed
  <2>3. CASE q = p /\ i = Len(asked[p]) + 1
    BY <1>4, <1>5, <2>3
  <2>. QED  BY <2>1, <2>2, <2>3
<1>8. AllListed'
  <2>. SUFFICES ASSUME NEW d \in Asking'
                PROVE  \E i \in 1 .. Len(asked'[of[d]]) : asked'[of[d]][i] = d
    BY <1>2 DEF AllListed
  <2>1. CASE d = c
    BY <1>0, <1>4, <2>1
  <2>2. CASE d # c
    <3>1. d \in Asking /\ of[d] \in Portfolios
      BY <1>5, <2>2, <1>0 DEF ChainTypeOK, Asking
    <3>2. PICK i \in 1 .. Len(asked[of[d]]) : asked[of[d]][i] = d
      BY <3>1 DEF ChainInv, AllListed
    <3>3. CASE of[d] = p
      <4>1. i \in 1 .. Len(asked'[p]) /\ asked'[p][i] = d
        BY <1>4, <3>2, <3>3
      <4>. QED  BY <3>3, <4>1
    <3>4. CASE of[d] # p
      BY <1>2, <3>1, <3>2, <3>4
    <3>. QED  BY <3>3, <3>4
  <2>. QED  BY <2>1, <2>2
<1>9. Once'
  <2>. SUFFICES ASSUME NEW q \in Portfolios,
                       NEW i \in 1 .. Len(asked'[q]), NEW j \in 1 .. Len(asked'[q]),
                       asked'[q][i] = asked'[q][j]
                PROVE  i = j
    BY DEF Once
  <2>1. CASE q # p
    BY <1>2, <2>1 DEF ChainInv, Once
  <2>2. CASE q = p /\ i # Len(asked[p]) + 1 /\ j # Len(asked[p]) + 1
    <3>1. i \in 1 .. Len(asked[p]) /\ j \in 1 .. Len(asked[p])
      BY <1>4, <2>2
    <3>. QED  BY <1>4, <2>2, <3>1 DEF ChainInv, Once
  <2>3. CASE q = p /\ (i = Len(asked[p]) + 1 \/ j = Len(asked[p]) + 1)
    <3>1. \A k \in 1 .. Len(asked'[p]) :
             k = Len(asked[p]) + 1 \/ k \in 1 .. Len(asked[p])
      BY <1>4
    <3>2. \A k \in 1 .. Len(asked[p]) : asked'[p][k] # c
      BY <1>0, <1>4, <1>6
    <3>. QED  BY <1>4, <2>3, <3>1, <3>2
  <2>. QED  BY <2>1, <2>2, <2>3
<1>10. Chained'
  <2>. SUFFICES ASSUME NEW q \in Portfolios, NEW i \in 2 .. Len(asked'[q])
                PROVE  prev'[asked'[q][i]] = asked'[q][i - 1]
    BY DEF Chained
  <2>0. asked[q] \in Seq(Calls)
    BY <1>0 DEF ChainTypeOK
  <2>1. CASE q # p
    BY <2>0, <1>2, <1>3, <1>6, <2>1 DEF ChainInv, Chained
  <2>2. CASE q = p /\ i # Len(asked[p]) + 1
    <3>1. i \in 2 .. Len(asked[p]) /\ i \in 1 .. Len(asked[p]) /\ i - 1 \in 1 .. Len(asked[p])
      BY <1>4, <2>2
    <3>2. asked[p][i] \in Calls /\ asked[p][i] # c
      BY <1>0, <1>6, <3>1
    <3>3. prev[asked[p][i]] = asked[p][i - 1]
      BY <1>0, <3>1 DEF ChainInv, Chained
    <3>. QED  BY <1>3, <1>4, <2>2, <3>1, <3>2, <3>3
  <2>3. CASE q = p /\ i = Len(asked[p]) + 1
    <3>1. asked[p] # <<>> /\ Len(asked[p]) \in 1 .. Len(asked[p])
      BY <1>0, <2>3
    <3>2. tails[p] = asked[p][Len(asked[p])]
      BY <1>0, <3>1 DEF ChainInv, NewestInMap
    <3>. QED  BY <1>0, <1>3, <1>4, <2>3, <3>1, <3>2
  <2>. QED  BY <2>1, <2>2, <2>3
<1>11. FirstIsFree'
  <2>. SUFFICES ASSUME NEW q \in Portfolios, asked'[q] # <<>>
                PROVE  prev'[asked'[q][1]] \in Settled
    BY <1>5 DEF FirstIsFree
  <2>0. asked[q] \in Seq(Calls)
    BY <1>0 DEF ChainTypeOK
  <2>1. CASE asked[q] # <<>>
    <3>0. Len(asked[q]) \in Nat /\ 1 \in 1 .. Len(asked[q])
      BY <2>0, <2>1
    <3>1. asked'[q][1] = asked[q][1] /\ 1 \in 1 .. Len(asked[q])
      <4>1. CASE q = p
        BY <3>0, <1>4, <4>1
      <4>2. CASE q # p
        BY <3>0, <1>2, <4>2
      <4>. QED  BY <3>0, <4>1, <4>2
    <3>. QED  BY <2>0, <2>1, <3>1, <1>3, <1>6 DEF ChainInv, FirstIsFree
  <2>2. CASE asked[q] = <<>>
    <3>1. q = p /\ asked'[q][1] = c
      BY <1>2, <1>4, <2>2
    <3>2. ASSUME tails[p] # NoCall PROVE tails[p] \in Settled
      <4>1. tails[p] \in Calls /\ pc[tails[p]] # "idle" /\ of[tails[p]] = p
        BY <1>0, <3>2 DEF ChainInv, MapOfPortfolio, ChainTypeOK
      <4>2. tails[p] \notin Asking
        BY <4>1, <2>2, <3>1 DEF ChainInv, AllListed
      <4>. QED  BY <4>1, <4>2, <1>0 DEF Asking, Settled, ChainTypeOK
    <3>. QED  BY <1>3, <3>1, <3>2 DEF Settled
  <2>. QED  BY <2>1, <2>2
<1>12. RunnersAreFree'
  BY <1>0, <1>3, <1>5 DEF ChainInv, RunnersAreFree, Running
<1>13. NewestInMap'
  <2>1. \A q \in Portfolios : q # p => asked'[q] = asked[q] /\ tails'[q] = tails[q]
    BY <1>2
  <2>2. tails'[p] = asked'[p][Len(asked'[p])]
    BY <1>2, <1>4
  <2>. QED  BY <2>1, <2>2 DEF ChainInv, NewestInMap
<1>14. MapOfPortfolio'
  <2>. SUFFICES ASSUME NEW q \in Portfolios, tails'[q] # NoCall
                PROVE  pc'[tails'[q]] # "idle" /\ of[tails'[q]] = q
    BY <1>2 DEF MapOfPortfolio
  <2>1. CASE q = p
    BY <1>2, <1>3, <2>1
  <2>2. CASE q # p
    <3>1. tails[q] \in Calls /\ pc[tails[q]] # "idle" /\ of[tails[q]] = q
      BY <1>0, <1>2, <2>2 DEF ChainInv, MapOfPortfolio, ChainTypeOK
    <3>. QED  BY <1>2, <1>3, <2>2, <3>1
  <2>. QED  BY <2>1, <2>2
<1>. QED
  BY <1>1, <1>7, <1>8, <1>9, <1>10, <1>11, <1>12, <1>13, <1>14 DEF ChainInv
LEMMA RunKeeps ==
    ASSUME NEW c \in Calls, ChainInv, Run(c)
    PROVE  ChainInv'
<1>0. ChainTypeOK /\ pc[c] = "waiting" /\ prev[c] \in Settled
      /\ tails' = tails /\ of' = of /\ prev' = prev /\ asked' = asked
  BY DEF ChainInv, Run
<1>1. ChainTypeOK'
  BY <1>0 DEF ChainTypeOK, Run
<1>2. pc'[c] = "running" /\ \A d \in Calls : d # c => pc'[d] = pc[d]
  BY <1>0 DEF Run, ChainTypeOK
<1>3. Asking' = Asking /\ Settled' = Settled /\ Running' = Running \cup {c}
  BY <1>0, <1>2 DEF Asking, Settled, Running
<1>4. MapOfPortfolio'
  BY <1>0, <1>2 DEF ChainInv, MapOfPortfolio, ChainTypeOK
<1>5. Listed' /\ AllListed' /\ Once' /\ Chained' /\ FirstIsFree' /\ NewestInMap'
  BY <1>0, <1>3
     DEF ChainInv, Listed, AllListed, Once, Chained, FirstIsFree, NewestInMap
<1>6. RunnersAreFree'
  BY <1>0, <1>3 DEF ChainInv, RunnersAreFree
<1>. QED  BY <1>1, <1>4, <1>5, <1>6 DEF ChainInv

LEMMA SettleKeeps ==
    ASSUME NEW c \in Calls, ChainInv, Settle(c)
    PROVE  ChainInv'
<1>. DEFINE p == of[c]
<1>0. ChainTypeOK /\ pc[c] = "running" /\ p \in Portfolios /\ asked[p] \in Seq(Calls)
      /\ tails' = tails /\ of' = of /\ prev' = prev
  BY DEF ChainInv, ChainTypeOK, Settle
<1>1. c \in Running /\ c \in Asking
  BY <1>0 DEF Running, Asking
<1>2. asked[p] # <<>> /\ asked[p][1] = c
  BY <1>1, FreeIsFirst DEF ChainInv, RunnersAreFree
<1>3. ChainTypeOK'
  <2>1. asked' = [asked EXCEPT ![p] = Tail(asked[p])] /\ Tail(asked[p]) \in Seq(Calls)
    BY <1>0, <1>2 DEF Settle
  <2>. QED  BY <1>0, <2>1 DEF ChainTypeOK, Settle
<1>4. pc'[c] = "settled" /\ \A d \in Calls : d # c => pc'[d] = pc[d]
  BY <1>0 DEF Settle, ChainTypeOK
<1>5. /\ Asking' = Asking \ {c} /\ Settled' = Settled \cup {c}
      /\ Running' = Running \ {c}
  BY <1>0, <1>4 DEF Asking, Settled, Running
<1>6. /\ Len(asked[p]) \in Nat /\ Len(asked'[p]) = Len(asked[p]) - 1
      /\ \A i \in 1 .. Len(asked'[p]) : asked'[p][i] = asked[p][i + 1]
      /\ \A q \in Portfolios : q # p => asked'[q] = asked[q]
  BY <1>0, <1>2 DEF Settle, ChainTypeOK
<1>7. \A i \in 1 .. Len(asked'[p]) : i + 1 \in 2 .. Len(asked[p]) /\ i + 1 \in 1 .. Len(asked[p])
  BY <1>6
<1>8. \A q \in Portfolios : \A i \in 1 .. Len(asked'[q]) : asked'[q][i] # c
  <2>. SUFFICES ASSUME NEW q \in Portfolios, NEW i \in 1 .. Len(asked'[q])
                PROVE  asked'[q][i] # c
    OBVIOUS
  <2>1. CASE q # p
    BY <1>6, <2>1 DEF ChainInv, Listed
  <2>2. CASE q = p
    <3>1. asked'[p][i] = asked[p][i + 1] /\ i + 1 \in 1 .. Len(asked[p]) /\ i + 1 # 1
          /\ 1 \in 1 .. Len(asked[p])
      BY <1>6, <1>7, <2>2
    <3>. QED  BY <1>0, <1>2, <2>2, <3>1 DEF ChainInv, Once
  <2>. QED  BY <2>1, <2>2
<1>9. Listed'
  <2>. SUFFICES ASSUME NEW q \in Portfolios, NEW i \in 1 .. Len(asked'[q])
                PROVE  asked'[q][i] \in Asking /\ of[asked'[q][i]] = q
    BY <1>0, <1>5, <1>8 DEF Listed
  <2>1. CASE q # p
    BY <1>6, <2>1 DEF ChainInv, Listed
  <2>2. CASE q = p
    <3>1. asked'[p][i] = asked[p][i + 1] /\ i + 1 \in 1 .. Len(asked[p])
      BY <1>6, <1>7, <2>2
    <3>. QED  BY <1>0, <2>2, <3>1 DEF ChainInv, Listed
  <2>. QED  BY <2>1, <2>2
<1>10. AllListed'
  <2>. SUFFICES ASSUME NEW d \in Asking'
                PROVE  \E i \in 1 .. Len(asked'[of[d]]) : asked'[of[d]][i] = d
    BY <1>0 DEF AllListed
  <2>0. d \in Asking /\ d # c /\ of[d] \in Portfolios
    BY <1>0, <1>5 DEF ChainTypeOK, Asking
  <2>1. PICK i \in 1 .. Len(asked[of[d]]) : asked[of[d]][i] = d
    BY <2>0 DEF ChainInv, AllListed
  <2>2. CASE of[d] # p
    BY <1>6, <2>0, <2>1, <2>2
  <2>3. CASE of[d] = p
    <3>1. i # 1
      BY <1>2, <2>0, <2>1, <2>3
    <3>2. i - 1 \in 1 .. Len(asked'[p]) /\ asked'[p][i - 1] = asked[p][(i - 1) + 1]
      BY <1>6, <2>1, <2>3, <3>1
    <3>3. (i - 1) + 1 = i
      BY <1>6, <2>1, <2>3
    <3>. QED  BY <2>1, <2>3, <3>2, <3>3
  <2>. QED  BY <2>2, <2>3
<1>11. Once'
  <2>. SUFFICES ASSUME NEW q \in Portfolios,
                       NEW i \in 1 .. Len(asked'[q]), NEW j \in 1 .. Len(asked'[q]),
                       asked'[q][i] = asked'[q][j]
                PROVE  i = j
    BY DEF Once
  <2>1. CASE q # p
    BY <1>6, <2>1 DEF ChainInv, Once
  <2>2. CASE q = p
    <3>1. /\ asked[p][i + 1] = asked[p][j + 1]
          /\ i + 1 \in 1 .. Len(asked[p]) /\ j + 1 \in 1 .. Len(asked[p])
      BY <1>6, <1>7, <2>2
    <3>2. i + 1 = j + 1
      BY <1>0, <3>1 DEF ChainInv, Once
    <3>. QED  BY <1>6, <2>2, <3>2
  <2>. QED  BY <2>1, <2>2
<1>12. Chained'
  <2>. SUFFICES ASSUME NEW q \in Portfolios, NEW i \in 2 .. Len(asked'[q])
                PROVE  prev[asked'[q][i]] = asked'[q][i - 1]
    BY <1>0 DEF Chained
  <2>1. CASE q # p
    BY <1>6, <2>1 DEF ChainInv, Chained
  <2>2. CASE q = p
    <3>1. i \in 1 .. Len(asked'[p]) /\ i - 1 \in 1 .. Len(asked'[p]) /\ (i - 1) + 1 = i
          /\ (i + 1) - 1 = i /\ i + 1 \in 2 .. Len(asked[p])
      BY <1>6, <2>2
    <3>2. prev[asked[p][i + 1]] = asked[p][i]
      BY <1>0, <3>1 DEF ChainInv, Chained
    <3>. QED  BY <1>6, <2>2, <3>1, <3>2
  <2>. QED  BY <2>1, <2>2
<1>13. FirstIsFree'
  <2>. SUFFICES ASSUME NEW q \in Portfolios, asked'[q] # <<>>
                PROVE  prev[asked'[q][1]] \in Settled'
    BY <1>0 DEF FirstIsFree
  <2>1. CASE q # p
    BY <1>5, <1>6, <2>1 DEF ChainInv, FirstIsFree
  <2>2. CASE q = p
    <3>1. asked'[p] \in Seq(Calls)
      BY <1>0, <1>3 DEF ChainTypeOK
    <3>2. 1 \in 1 .. Len(asked'[p]) /\ 2 \in 2 .. Len(asked[p]) /\ 2 - 1 = 1 /\ 1 + 1 = 2
      BY <1>6, <2>2, <3>1
    <3>3. prev[asked[p][2]] = c /\ asked'[p][1] = asked[p][2]
      BY <1>0, <1>2, <1>6, <3>2 DEF ChainInv, Chained
    <3>. QED  BY <1>5, <2>2, <3>3
  <2>. QED  BY <2>1, <2>2
<1>14. RunnersAreFree'
  BY <1>0, <1>5 DEF ChainInv, RunnersAreFree
<1>15. NewestInMap'
  <2>. SUFFICES ASSUME NEW q \in Portfolios, asked'[q] # <<>>
                PROVE  tails[q] = asked'[q][Len(asked'[q])]
    BY <1>0 DEF NewestInMap
  <2>1. CASE q # p
    BY <1>6, <2>1 DEF ChainInv, NewestInMap
  <2>2. CASE q = p
    <3>1. asked'[p] \in Seq(Calls)
      BY <1>0, <1>3 DEF ChainTypeOK
    <3>2. Len(asked'[p]) \in 1 .. Len(asked'[p]) /\ Len(asked'[p]) + 1 = Len(asked[p])
      BY <1>6, <2>2, <3>1
    <3>. QED  BY <1>0, <1>2, <1>6, <2>2, <3>2 DEF ChainInv, NewestInMap
  <2>. QED  BY <2>1, <2>2
<1>16. MapOfPortfolio'
  BY <1>0, <1>4 DEF ChainInv, MapOfPortfolio, ChainTypeOK
<1>. QED
  BY <1>3, <1>9, <1>10, <1>11, <1>12, <1>13, <1>14, <1>15, <1>16 DEF ChainInv

LEMMA LeaveKeeps ==
    ASSUME NEW c \in Calls, ChainInv, Leave(c)
    PROVE  ChainInv'
<1>0. ChainTypeOK /\ pc[c] = "settled" /\ of[c] \in Portfolios
      /\ of' = of /\ prev' = prev /\ asked' = asked /\ tails' = Cleared(c)
  BY DEF ChainInv, ChainTypeOK, Leave
<1>1. ChainTypeOK'
  BY <1>0 DEF ChainTypeOK, Leave, Cleared
<1>2. pc'[c] = "left" /\ \A d \in Calls : d # c => pc'[d] = pc[d]
  BY <1>0 DEF Leave, ChainTypeOK
<1>3. Asking' = Asking /\ Settled' = Settled /\ Running' = Running /\ c \notin Asking
  BY <1>0, <1>2 DEF Asking, Settled, Running
<1>4. \A p \in Portfolios : tails'[p] = tails[p] \/ (tails[p] = c /\ tails'[p] = NoCall)
  BY <1>0 DEF Cleared, ChainTypeOK
<1>5. NewestInMap'
  <2>. SUFFICES ASSUME NEW p \in Portfolios, asked[p] # <<>>
                PROVE  tails'[p] = asked[p][Len(asked[p])]
    BY <1>0 DEF NewestInMap
  <2>1. asked[p] \in Seq(Calls)
    BY <1>0 DEF ChainTypeOK
  <2>2. Len(asked[p]) \in 1 .. Len(asked[p]) /\ tails[p] = asked[p][Len(asked[p])]
    BY <2>1 DEF ChainInv, NewestInMap
  <2>3. tails[p] # c
    BY <1>3, <2>2 DEF ChainInv, Listed
  <2>. QED  BY <1>4, <2>2, <2>3
<1>6. MapOfPortfolio'
  <2>. SUFFICES ASSUME NEW p \in Portfolios, tails'[p] # NoCall
                PROVE  pc'[tails'[p]] # "idle" /\ of[tails'[p]] = p
    BY <1>0 DEF MapOfPortfolio
  <2>1. tails'[p] = tails[p] /\ tails[p] \in Calls
    BY <1>0, <1>4 DEF ChainTypeOK
  <2>. QED  BY <1>2, <2>1 DEF ChainInv, MapOfPortfolio
<1>7. Listed' /\ AllListed' /\ Once' /\ Chained' /\ FirstIsFree' /\ RunnersAreFree'
  BY <1>0, <1>3
     DEF ChainInv, Listed, AllListed, Once, Chained, FirstIsFree, RunnersAreFree
<1>. QED  BY <1>1, <1>5, <1>6, <1>7 DEF ChainInv

LEMMA StepKeeps == ChainInv /\ [ChainNext]_chainVars => ChainInv'
<1>. SUFFICES ASSUME ChainInv, [ChainNext]_chainVars PROVE ChainInv'
  OBVIOUS
<1>1. ASSUME NEW c \in Calls, Ask(c) \/ Run(c) \/ Settle(c) \/ Leave(c)
      PROVE  ChainInv'
  BY <1>1, AskKeeps, RunKeeps, SettleKeeps, LeaveKeeps
<1>2. CASE UNCHANGED chainVars
  BY <1>2 DEF chainVars, ChainInv, ChainTypeOK, Listed, AllListed, Once, Chained,
              FirstIsFree, RunnersAreFree, NewestInMap, MapOfPortfolio, Asking,
              Running, Settled
<1>. QED  BY <1>1, <1>2 DEF ChainNext

-----------------------------------------------------------------------------
(* Every state of the chain is of the right type, and its map and its      *)
(* promises describe the list of those that asked.                         *)
THEOREM ChainInvariant == ChainSpec => []ChainInv
<1>. QED  BY InvInit, StepKeeps, PTL DEF ChainSpec

(* Mutual exclusion of withPortfolioLock, however many calls there are.    *)
THEOREM FunctionsRunOneAtATime == ChainSpec => []OneAtATime
<1>. QED  BY ChainInvariant, InvExcludes, PTL

(* Each turn of the event loop is a step of the abstract lock or changes   *)
(* nothing of it.                                                          *)
LEMMA StepRefines ==
    ChainInv /\ [ChainNext]_chainVars => [Lock!LockNext]_(Lock!lockVars)
<1>. SUFFICES ASSUME ChainInv, [ChainNext]_chainVars
              PROVE  [Lock!LockNext]_(Lock!lockVars)
  OBVIOUS
<1>0. ChainTypeOK
  BY DEF ChainInv
<1>1. ASSUME NEW c \in Calls, Ask(c) PROVE Lock!Enter(c, of[c])
  <2>1. \A q \in Portfolios : \A i \in 1 .. Len(asked[q]) : asked[q][i] # c
    BY <1>1 DEF ChainInv, Listed, Asking, Ask
  <2>2. Running' = Running
    BY <1>0, <1>1 DEF Running, Ask, ChainTypeOK
  <2>. QED  BY <1>1, <2>1, <2>2 DEF Lock!Enter, Lock!Waits, Ask
<1>2. ASSUME NEW c \in Calls, Run(c) PROVE Lock!Acquire(c, of[c])
  <2>1. asked[of[c]] # <<>> /\ asked[of[c]][1] = c
    BY <1>2, FreeIsFirst DEF Run, Asking
  <2>2. asked[of[c]] \in Seq(Calls)
    BY <1>0 DEF ChainTypeOK
  <2>3. c \notin Running /\ Running' = Running \cup {c}
    BY <1>0, <1>2 DEF Running, Run, ChainTypeOK
  <2>. QED  BY <1>2, <2>1, <2>2, <2>3 DEF Lock!Acquire, Lock!IsFirst, Run
<1>3. ASSUME NEW c \in Calls, Settle(c) PROVE Lock!Release(c, of[c])
  <2>0. c \in Running /\ c \in Asking
    BY <1>3 DEF Settle, Running, Asking
  <2>1. asked[of[c]] # <<>> /\ asked[of[c]][1] = c
    BY <2>0, FreeIsFirst DEF ChainInv, RunnersAreFree
  <2>2. asked[of[c]] \in Seq(Calls)
    BY <1>0 DEF ChainTypeOK
  <2>3. Running' = Running \ {c}
    BY <1>0, <1>3 DEF Running, Settle, ChainTypeOK
  <2>. QED  BY <1>3, <2>0, <2>1, <2>2, <2>3 DEF Lock!Release, Lock!IsFirst, Settle
<1>4. ASSUME NEW c \in Calls, Leave(c) PROVE UNCHANGED Lock!lockVars
  BY <1>0, <1>4 DEF Leave, Running, ChainTypeOK, Lock!lockVars
<1>5. CASE UNCHANGED chainVars
  BY <1>5 DEF chainVars, Running, Lock!lockVars
<1>6. \A c \in Calls : of[c] \in Portfolios
  BY <1>0 DEF ChainTypeOK
<1>. QED
  BY <1>1, <1>2, <1>3, <1>4, <1>5, <1>6 DEF ChainNext, Lock!LockNext

(* The promise chain implements the first-in first-out lock (safety).      *)
THEOREM ChainImplementsLock == ChainSpec => ImplementsLock
<1>1. ChainInit => Lock!LockInit
  BY DEF ChainInit, Lock!LockInit, Running
<1>. QED
  BY <1>1, ChainInvariant, StepRefines, PTL DEF ChainSpec, ImplementsLock, Lock!LockSafety

-----------------------------------------------------------------------------
(* The pairings.  A child that reported its end is gone for good; where an *)
(* entry is being read or holds a result, its own child no longer runs, or *)
(* another pairing interfered.                                             *)
EntryType ==
    [init: BOOLEAN, approval: Verifies \cup {None}, settled: {"no", "session", "error"},
     timer: BOOLEAN, method: {"push", "authenticator"}]

PairingInv ==
    /\ PairingTypeOK
    /\ \A s \in Starts : start[s] \in {"new", "making"} => child[s] = "none"
    /\ \A c, s \in Starts : <<c, s>> \in reading => s \in crossed \/ child[s] = "gone"
    /\ \A s \in Starts : entry[s].settled # "no" => child[s] # "running" \/ s \in crossed
    /\ NoChildLeft

LEMMA PairingTypes ==
    ASSUME PairingTypeOK
    PROVE  /\ pending \in Starts \cup {None} /\ entry \in [Starts -> EntryType]
           /\ child \in [Starts -> {"none", "running", "approved", "failed", "gone"}]
           /\ said \subseteq Starts /\ coded \subseteq Starts /\ cookies \subseteq Starts
           /\ reading \subseteq (Starts \X Starts)
           /\ start \in [Starts -> {"new", "making", "waiting", "answered", "failed"}]
           /\ verify \in [Verifies -> {"new", "waiting", "session", "failed"}]
           /\ sentTo \in [Verifies -> Starts \cup {None}]
           /\ dropped \subseteq (Starts \cup Verifies) /\ crossed \subseteq Starts
BY DEF PairingTypeOK, EntryType

(* Records of the entries.                                                 *)
LEMMA EntryUpdates ==
    ASSUME NEW r \in EntryType, NEW b \in BOOLEAN
    PROVE  /\ [r EXCEPT !.timer = b] \in EntryType
           /\ [r EXCEPT !.timer = b].settled = r.settled
           /\ \A v \in Verifies \cup {None} :
                 /\ [r EXCEPT !.approval = v] \in EntryType
                 /\ [r EXCEPT !.approval = v].settled = r.settled
           /\ \A m \in {"push", "authenticator"} :
                 /\ [r EXCEPT !.init = b, !.method = m] \in EntryType
                 /\ [r EXCEPT !.init = b, !.method = m].settled = r.settled
           /\ [r EXCEPT !.timer = b, !.init = b, !.approval = None] \in EntryType
           /\ [r EXCEPT !.timer = b, !.init = b, !.approval = None].settled = r.settled
           /\ \A x \in {"no", "session", "error"}, i \in BOOLEAN :
                 [r EXCEPT !.settled = x, !.timer = b, !.init = i] \in EntryType
BY DEF EntryType

(* An entry that is written keeps its result, but where one is reported.   *)
LEMMA EntryGoes ==
    ASSUME PairingTypeOK, NEW s \in Starts, NEW r \in EntryType, entry' = [entry EXCEPT ![s] = r]
    PROVE  /\ entry' \in [Starts -> EntryType] /\ entry'[s] = r
           /\ \A x \in Starts \ {s} : entry'[x] = entry[x]
BY PairingTypes

LEMMA KilledFacts ==
    ASSUME PairingTypeOK, NEW s \in Starts \cup {None}
    PROVE  /\ Killed(s) \in [Starts -> {"none", "running", "approved", "failed", "gone"}]
           /\ s # None => Killed(s)[s] # "running"
           /\ \A x \in Starts : Killed(s)[x] = child[x]
                              \/ (child[x] = "running" /\ Killed(s)[x] = "failed")
BY PairingTypes, NoneAssumption DEF Killed

LEMMA AnswerTyped ==
    ASSUME PairingTypeOK, NEW s \in Starts, NEW answer \in {"session", "failed"}
    PROVE  /\ ApprovalIs(s, answer) \in [Verifies -> {"new", "waiting", "session", "failed"}]
           /\ InitRejected(s) \in [Starts -> {"new", "making", "waiting", "answered", "failed"}]
           /\ \A x \in Starts : InitRejected(s)[x] \in {start[x], "failed"}
BY PairingTypes DEF ApprovalIs, InitRejected

LEMMA WaitingTyped ==
    ASSUME PairingTypeOK, NEW s \in Starts \cup {None}
    PROVE  Waiting(s) \subseteq Starts \cup Verifies
BY NoneAssumption DEF Waiting

(* What a step must do for the invariant: children only end, a start that  *)
(* was made is not made again, and a pairing that leaves the map has no    *)
(* child that runs, or another one interfered.                             *)
LEMMA PairingKept ==
    ASSUME PairingInv, PairingTypeOK',
           \A s \in Starts : child[s] = "none" => child'[s] = "none",
           \A s \in Starts : child[s] = "gone" => child'[s] = "gone",
           \A s \in Starts : child[s] # "running" => child'[s] # "running",
           \A s \in Starts : start'[s] \in {"new", "making"} => start[s] \in {"new", "making"},
           crossed \subseteq crossed',
           \A c, s \in Starts : <<c, s>> \in reading'
                => <<c, s>> \in reading \/ s \in crossed' \/ child'[s] = "gone",
           \A s \in Starts : entry'[s].settled = entry[s].settled
                            \/ s \in crossed' \/ child'[s] # "running",
           pending' = pending \/ pending = None
              \/ child'[pending] # "running" \/ pending \in crossed'
    PROVE  PairingInv'
<1>1. \A s \in Starts : s # None
  BY NoneAssumption
<1>2. /\ \A s \in Starts : start'[s] \in {"new", "making"} => child'[s] = "none"
      /\ \A c, s \in Starts : <<c, s>> \in reading' => s \in crossed' \/ child'[s] = "gone"
  BY DEF PairingInv
<1>3. \A s \in Starts : entry'[s].settled # "no" => child'[s] # "running" \/ s \in crossed'
  BY DEF PairingInv
<1>4. NoChildLeft'
  BY <1>1 DEF PairingInv, NoChildLeft
<1> QED BY <1>2, <1>3, <1>4 DEF PairingInv

(* Cancelling kills the child of the pairing that leaves the map.          *)
LEMMA CancelKeeps ==
    ASSUME PairingInv, Disconnect \/ \E s \in Starts : Starting(s)
    PROVE  PairingInv'
<1>1. /\ PairingTypeOK /\ Cancel
      /\ UNCHANGED <<said, coded, reading, verify, sentTo, crossed>>
  BY DEF PairingInv, Disconnect, Starting
<1>2. /\ start' \in [Starts -> {"new", "making", "waiting", "answered", "failed"}]
      /\ \A s \in Starts : start'[s] \in {"new", "making"} => start[s] \in {"new", "making"}
  BY <1>1, PairingTypes DEF Disconnect, Starting
<1>3. /\ pending' = None /\ child' = Killed(pending) /\ pending \in Starts \cup {None}
      /\ cookies' \subseteq cookies
      /\ dropped' = dropped \cup Waiting(pending)
  BY <1>1, PairingTypes DEF Cancel
<1>4. /\ entry' \in [Starts -> EntryType]
      /\ \A s \in Starts : entry'[s].settled = entry[s].settled
  <2>1. CASE pending = None
    BY <1>1, <2>1, PairingTypes DEF Cancel
  <2>2. CASE pending # None
    <3>1. pending \in Starts /\ entry[pending] \in EntryType
      BY <1>1, <2>2, PairingTypes
    <3> DEFINE r == [entry[pending] EXCEPT !.timer = FALSE]
    <3>2. entry' = [entry EXCEPT ![pending] = r]
      BY <1>1, <2>2 DEF Cancel
    <3>3. r \in EntryType /\ r.settled = entry[pending].settled
      BY <3>1, EntryUpdates
    <3> HIDE DEF r
    <3> QED BY <1>1, <3>1, <3>2, <3>3, EntryGoes
  <2> QED BY <2>1, <2>2
<1>5. PairingTypeOK'
  <2>1. dropped' \subseteq Starts \cup Verifies
    BY <1>1, <1>3, WaitingTyped, PairingTypes
  <2> QED BY <1>1, <1>2, <1>3, <1>4, <2>1, KilledFacts DEF PairingTypeOK, EntryType
<1>6. pending # None => child'[pending] # "running"
  BY <1>1, <1>3, KilledFacts
<1>7. /\ \A s \in Starts : child[s] = "none" => child'[s] = "none"
      /\ \A s \in Starts : child[s] = "gone" => child'[s] = "gone"
      /\ \A s \in Starts : child[s] # "running" => child'[s] # "running"
  BY <1>1, <1>3, KilledFacts
<1> QED BY <1>1, <1>2, <1>4, <1>5, <1>6, <1>7, PairingKept

(* A child is spawned once, for a start that is being made; it takes the   *)
(* place of whatever pairing is in the map.                                *)
LEMMA SpawnsKeep ==
    ASSUME PairingInv, NEW s \in Starts, Spawns(s)
    PROVE  PairingInv'
<1>1. /\ PairingTypeOK /\ s # None /\ start[s] = "making" /\ child[s] = "none"
      /\ UNCHANGED <<said, coded, cookies, reading, verify, sentTo>>
  BY NoneAssumption DEF PairingInv, Spawns
<1>2. /\ start' = [start EXCEPT ![s] = "waiting"] /\ child' = [child EXCEPT ![s] = "running"]
      /\ entry' = [entry EXCEPT ![s] = NewEntry] /\ pending' = s
      /\ dropped' = dropped \cup Waiting(pending)
      /\ crossed' = crossed \cup ({pending} \ {None})
  BY DEF Spawns
<1>3. NewEntry \in EntryType /\ NewEntry.settled = "no"
  BY DEF NewEntry, EntryType
<1>4. PairingTypeOK'
  <2>1. dropped' \subseteq Starts \cup Verifies
    BY <1>1, <1>2, WaitingTyped, PairingTypes
  <2> QED BY <1>1, <1>2, <1>3, <2>1, EntryGoes, PairingTypes DEF PairingTypeOK, EntryType
<1>5. \A x \in Starts : start'[x] \in {"new", "making"} => child'[x] = "none"
  BY <1>1, <1>2, PairingTypes DEF PairingInv
<1>6. \A c, x \in Starts : <<c, x>> \in reading' => x \in crossed' \/ child'[x] = "gone"
  BY <1>1, <1>2, PairingTypes DEF PairingInv
<1>7. \A x \in Starts : entry'[x].settled # "no" => child'[x] # "running" \/ x \in crossed'
  BY <1>1, <1>2, <1>3, PairingTypes DEF PairingInv
<1>8. NoChildLeft'
  BY <1>1, <1>2, PairingTypes, NoneAssumption DEF PairingInv, NoChildLeft
<1> QED BY <1>4, <1>5, <1>6, <1>7, <1>8 DEF PairingInv

(* Lines of a child and refusals of a code reach the entry in the map.     *)
LEMMA LinesKeep ==
    ASSUME PairingInv, NEW c \in Starts,
           SpawnThrows(c) \/ FirstLine(c, "push") \/ FirstLine(c, "authenticator")
              \/ CodeRefused(c) \/ ChildEnds(c)
    PROVE  PairingInv'
<1>1. PairingTypeOK /\ UNCHANGED <<pending, reading, sentTo, dropped>>
  BY DEF PairingInv, SpawnThrows, FirstLine, CodeRefused, ChildEnds, history
<1>2. /\ said' \subseteq Starts /\ coded' \subseteq Starts /\ cookies' \subseteq Starts
      /\ crossed \subseteq crossed' /\ crossed' \subseteq Starts
  BY <1>1, PairingTypes DEF SpawnThrows, FirstLine, CodeRefused, ChildEnds, history
<1>3. /\ child' \in [Starts -> {"none", "running", "approved", "failed", "gone"}]
      /\ \A s \in Starts : child[s] = "none" => child'[s] = "none"
      /\ \A s \in Starts : child[s] = "gone" => child'[s] = "gone"
      /\ \A s \in Starts : child[s] # "running" => child'[s] # "running"
  BY <1>1, PairingTypes DEF SpawnThrows, FirstLine, CodeRefused, ChildEnds
<1>4. /\ start' \in [Starts -> {"new", "making", "waiting", "answered", "failed"}]
      /\ \A s \in Starts : start'[s] \in {"new", "making"} => start[s] \in {"new", "making"}
  BY <1>1, PairingTypes DEF SpawnThrows, FirstLine, CodeRefused, ChildEnds
<1>5. verify' \in [Verifies -> {"new", "waiting", "session", "failed"}]
  <2>1. CASE UNCHANGED verify
    BY <1>1, <2>1, PairingTypes
  <2>2. CASE ~UNCHANGED verify
    <3>1. pending \in Starts /\ verify' = ApprovalIs(pending, "failed")
      BY <1>1, <2>2, PairingTypes DEF SpawnThrows, FirstLine, CodeRefused, ChildEnds
    <3> QED BY <1>1, <3>1, AnswerTyped
  <2> QED BY <2>1, <2>2
<1>6. /\ entry' \in [Starts -> EntryType]
      /\ \A s \in Starts : entry'[s].settled = entry[s].settled
  <2>1. CASE UNCHANGED entry
    BY <1>1, <2>1, PairingTypes
  <2>2. ASSUME NEW m \in {"push", "authenticator"}, FirstLine(c, m), ~UNCHANGED entry
        PROVE  /\ entry' \in [Starts -> EntryType]
               /\ \A s \in Starts : entry'[s].settled = entry[s].settled
    <3>1. pending \in Starts /\ entry[pending] \in EntryType
      BY <1>1, <2>2, PairingTypes DEF FirstLine
    <3> DEFINE r == [entry[pending] EXCEPT !.init = FALSE, !.method = m]
    <3>2. entry' = [entry EXCEPT ![pending] = r]
      BY <2>2 DEF FirstLine
    <3>3. r \in EntryType /\ r.settled = entry[pending].settled
      BY <3>1, EntryUpdates
    <3> HIDE DEF r
    <3> QED BY <1>1, <3>1, <3>2, <3>3, EntryGoes
  <2>3. CASE CodeRefused(c) /\ ~UNCHANGED entry
    <3>1. pending \in Starts /\ entry[pending] \in EntryType
      BY <1>1, <2>3, PairingTypes DEF CodeRefused
    <3> DEFINE r == [entry[pending] EXCEPT !.approval = None]
    <3>2. entry' = [entry EXCEPT ![pending] = r]
      BY <2>3 DEF CodeRefused
    <3>3. r \in EntryType /\ r.settled = entry[pending].settled
      BY <3>1, EntryUpdates
    <3> HIDE DEF r
    <3> QED BY <1>1, <3>1, <3>2, <3>3, EntryGoes
  <2> QED BY <2>1, <2>2, <2>3 DEF SpawnThrows, ChildEnds
<1>7. PairingTypeOK'
  BY <1>1, <1>2, <1>3, <1>4, <1>5, <1>6, PairingTypes DEF PairingTypeOK, EntryType
<1> QED BY <1>1, <1>2, <1>3, <1>4, <1>6, <1>7, PairingKept

(* A failure ends the pairing that is in the map.                          *)
LEMMA FailFacts ==
    ASSUME PairingTypeOK, NEW s \in Starts, NEW left,
           left \in {entry, [entry EXCEPT ![s].timer = FALSE]}, Fail(s, left)
    PROVE  /\ entry' \in [Starts -> EntryType]
           /\ \A x \in Starts : entry'[x].settled = entry[x].settled
           /\ start' \in [Starts -> {"new", "making", "waiting", "answered", "failed"}]
           /\ \A x \in Starts : start'[x] \in {"new", "making"} => start[x] \in {"new", "making"}
           /\ verify' \in [Verifies -> {"new", "waiting", "session", "failed"}]
           /\ pending' = None /\ cookies' \subseteq cookies
           /\ crossed' = crossed \cup ({pending} \ {None, s})
           /\ UNCHANGED <<said, coded, reading, sentTo, dropped>>
<1>1. entry[s] \in EntryType /\ entry \in [Starts -> EntryType]
  BY PairingTypes
<1> DEFINE r1 == [entry[s] EXCEPT !.timer = FALSE]
<1>2. r1 \in EntryType /\ r1.settled = entry[s].settled
  BY <1>1, EntryUpdates
<1>3. /\ left \in [Starts -> EntryType]
      /\ \A x \in Starts : left[x].settled = entry[x].settled
  <2>1. left = entry \/ left = [entry EXCEPT ![s] = r1]
    OBVIOUS
  <2> HIDE DEF r1
  <2> QED BY <1>1, <1>2, <2>1
<1>4. CASE pending = None
  <2>1. entry' = left /\ UNCHANGED <<start, verify, pending, cookies>>
    BY <1>4 DEF Fail
  <2> QED BY <1>3, <1>4, <2>1, PairingTypes DEF Fail
<1>5. CASE pending # None
  <2> DEFINE r2 == [left[pending] EXCEPT !.timer = FALSE, !.init = FALSE, !.approval = None]
  <2>1. pending \in Starts
    BY <1>5, PairingTypes
  <2>2. entry' = [left EXCEPT ![pending] = r2]
    BY <1>5 DEF Fail
  <2>3. r2 \in EntryType /\ r2.settled = left[pending].settled
    BY <1>3, <2>1, EntryUpdates
  <2> HIDE DEF r2
  <2>4. /\ entry' \in [Starts -> EntryType]
        /\ \A x \in Starts : entry'[x].settled = entry[x].settled
    BY <1>3, <2>1, <2>2, <2>3
  <2>5. /\ start' = InitRejected(pending) /\ verify' = ApprovalIs(pending, "failed")
        /\ pending' = None /\ cookies' \subseteq cookies
    BY <1>5 DEF Fail, FailRejects
  <2>6. \A x \in Starts : start'[x] \in {"new", "making"} => start[x] \in {"new", "making"}
    BY <2>1, <2>5, AnswerTyped
  <2> QED BY <2>1, <2>4, <2>5, <2>6, AnswerTyped DEF Fail
<1> QED BY <1>4, <1>5

LEMMA FailKeeps ==
    ASSUME PairingInv, NEW s \in Starts, TimerFires(s) \/ ChildErrors(s)
    PROVE  PairingInv'
<1>1. /\ PairingTypeOK /\ pending \in Starts \cup {None}
      /\ \E left \in {entry, [entry EXCEPT ![s].timer = FALSE]} : Fail(s, left)
  BY PairingTypes DEF PairingInv, TimerFires, ChildErrors
<1>2. /\ child' \in [Starts -> {"none", "running", "approved", "failed", "gone"}]
      /\ \A x \in Starts : child[x] = "none" => child'[x] = "none"
      /\ \A x \in Starts : child[x] = "gone" => child'[x] = "gone"
      /\ \A x \in Starts : child[x] # "running" => child'[x] # "running"
      /\ pending # None => child'[pending] # "running"
  <2>1. CASE TimerFires(s)
    BY <1>1, <2>1, KilledFacts DEF TimerFires
  <2>2. CASE ChildErrors(s)
    <3>1. child[s] = "running" /\ child' = [Killed(pending) EXCEPT ![s] = "gone"]
      BY <2>2 DEF ChildErrors
    <3> QED BY <1>1, <3>1, KilledFacts
  <2> QED BY <2>1, <2>2
<1>3. PairingTypeOK'
  <2>1. crossed' \subseteq Starts /\ cookies' \subseteq Starts
    BY <1>1, FailFacts, PairingTypes
  <2> QED BY <1>1, <1>2, <2>1, FailFacts, PairingTypes DEF PairingTypeOK, EntryType
<1>4. crossed \subseteq crossed' /\ reading' = reading
  BY <1>1, FailFacts
<1> QED BY <1>1, <1>2, <1>3, <1>4, FailFacts, PairingKept

(* A result is reported to the entry s.                                    *)
LEMMA ReportsFacts ==
    ASSUME PairingTypeOK, NEW s \in Starts, NEW result \in {"session", "error"},
           Reports(s, result)
    PROVE  /\ entry' \in [Starts -> EntryType]
           /\ \A x \in Starts \ {s} : entry'[x] = entry[x]
           /\ start' \in [Starts -> {"new", "making", "waiting", "answered", "failed"}]
           /\ \A x \in Starts : start'[x] \in {"new", "making"} => start[x] \in {"new", "making"}
           /\ verify' \in [Verifies -> {"new", "waiting", "session", "failed"}]
           /\ pending' \in {pending, None} /\ cookies' \subseteq cookies
           /\ entry[s].approval = None => pending' = pending
<1> DEFINE as == SettledAs(s, result)
           init == IF result = "error" THEN FALSE ELSE entry[s].init
           r == [entry[s] EXCEPT !.settled = as, !.timer = FALSE, !.init = init]
<1>1. /\ entry[s] \in EntryType /\ as \in {"no", "session", "error"}
      /\ init \in BOOLEAN
  BY PairingTypes DEF SettledAs, EntryType
<1>2. entry' = [entry EXCEPT ![s] = r]
  BY DEF Reports
<1> HIDE DEF as, init
<1>3. r \in EntryType
  BY <1>1, EntryUpdates
<1> HIDE DEF r
<1>4. /\ start' \in [Starts -> {"new", "making", "waiting", "answered", "failed"}]
      /\ \A x \in Starts : start'[x] \in {"new", "making"} => start[x] \in {"new", "making"}
  <2>1. start' = start \/ start' = InitRejected(s)
    BY DEF Reports
  <2>2. "failed" \in {"session", "failed"}
    OBVIOUS
  <2> QED BY <2>1, <2>2, AnswerTyped, PairingTypes
<1>5. verify' \in [Verifies -> {"new", "waiting", "session", "failed"}]
  <2>1. verify' = ApprovalIs(s, "failed") \/ verify' = ApprovalIs(s, "session")
    BY DEF Reports
  <2> QED BY <2>1, AnswerTyped
<1>6. /\ pending' \in {pending, None} /\ cookies' \subseteq cookies
      /\ entry[s].approval = None => pending' = pending
  BY DEF Reports
<1> QED BY <1>2, <1>3, <1>4, <1>5, <1>6, EntryGoes

(* The end of a child is reported to the pairing in the map, its own or    *)
(* another one, which it then crosses.                                     *)
LEMMA ExitKeeps ==
    ASSUME PairingInv, NEW c \in Starts, ExitReported(c)
    PROVE  PairingInv'
<1>1. /\ PairingTypeOK /\ pending \in Starts \cup {None}
      /\ child[c] \in {"approved", "failed"} /\ child' = [child EXCEPT ![c] = "gone"]
      /\ crossed' = crossed \cup ({pending} \ {None, c})
      /\ UNCHANGED <<said, coded, sentTo, dropped>>
  BY PairingTypes DEF PairingInv, ExitReported
<1>2. /\ child' \in [Starts -> {"none", "running", "approved", "failed", "gone"}]
      /\ child'[c] = "gone"
      /\ \A x \in Starts : child[x] = "none" => child'[x] = "none"
      /\ \A x \in Starts : child[x] = "gone" => child'[x] = "gone"
      /\ \A x \in Starts : child[x] # "running" => child'[x] # "running"
  BY <1>1, PairingTypes
<1>3. /\ pending # None => pending \in crossed' \/ child'[pending] = "gone"
      /\ crossed \subseteq crossed' /\ crossed' \subseteq Starts
  BY <1>1, <1>2, PairingTypes
<1>4. CASE pending = None
  <2>1. UNCHANGED <<entry, start, verify, pending, cookies, reading>>
    BY <1>4 DEF ExitReported
  <2>2. PairingTypeOK'
    BY <1>1, <1>2, <1>3, <2>1, PairingTypes DEF PairingTypeOK, EntryType
  <2> QED BY <1>2, <1>3, <2>1, <2>2, PairingKept
<1>5. CASE pending # None /\ child[c] = "approved"
  <2>1. /\ pending \in Starts /\ entry[pending] \in EntryType
        /\ reading' = reading \cup {<<c, pending>>}
        /\ UNCHANGED <<start, verify, pending, cookies>>
    BY <1>1, <1>5, PairingTypes DEF ExitReported
  <2> DEFINE r == [entry[pending] EXCEPT !.timer = FALSE]
  <2>2. entry' = [entry EXCEPT ![pending] = r]
    BY <1>5 DEF ExitReported
  <2>3. r \in EntryType /\ r.settled = entry[pending].settled
    BY <2>1, EntryUpdates
  <2> HIDE DEF r
  <2>4. /\ entry' \in [Starts -> EntryType]
        /\ \A x \in Starts : entry'[x].settled = entry[x].settled
    BY <1>1, <2>1, <2>2, <2>3, EntryGoes
  <2>5. PairingTypeOK'
    BY <1>1, <1>2, <1>3, <2>1, <2>4, PairingTypes DEF PairingTypeOK, EntryType
  <2>6. \A x, s \in Starts : <<x, s>> \in reading'
            => <<x, s>> \in reading \/ s \in crossed' \/ child'[s] = "gone"
    BY <1>3, <1>5, <2>1
  <2> QED BY <1>2, <1>3, <2>1, <2>4, <2>5, <2>6, PairingKept
<1>6. CASE pending # None /\ child[c] # "approved"
  <2>1. pending \in Starts /\ Reports(pending, "error") /\ UNCHANGED reading
    BY <1>1, <1>6 DEF ExitReported
  <2>2. PairingTypeOK'
    <3>1. pending' \in Starts \cup {None} /\ cookies' \subseteq Starts
      BY <1>1, <2>1, ReportsFacts, PairingTypes
    <3> QED BY <1>1, <1>2, <1>3, <2>1, <3>1, ReportsFacts, PairingTypes
            DEF PairingTypeOK, EntryType
  <2>3. \A s \in Starts : entry'[s].settled = entry[s].settled
                         \/ s \in crossed' \/ child'[s] # "running"
    BY <1>1, <1>3, <1>6, <2>1, ReportsFacts
  <2>4. \A x \in Starts : start'[x] \in {"new", "making"} => start[x] \in {"new", "making"}
    BY <1>1, <2>1, ReportsFacts
  <2> QED BY <1>2, <1>3, <1>6, <2>1, <2>2, <2>3, <2>4, PairingKept
<1> QED BY <1>4, <1>5, <1>6

(* A session read late is reported to its entry, which was crossed or      *)
(* whose child is gone; the pairing that leaves the map is crossed.        *)
LEMMA SessionKeeps ==
    ASSUME PairingInv, NEW c \in Starts, NEW s \in Starts, SessionRead(c, s)
    PROVE  PairingInv'
<1> DEFINE other == IF entry[s].approval = None THEN {} ELSE {pending} \ {None, s}
           result == IF s \in cookies THEN "session" ELSE "error"
<1>1. /\ PairingTypeOK /\ <<c, s>> \in reading /\ reading' = reading \ {<<c, s>>}
      /\ Reports(s, result) /\ result \in {"session", "error"}
      /\ dropped' = dropped \cup UNION {Waiting(p) : p \in other}
      /\ crossed' = crossed \cup other
      /\ UNCHANGED <<child, said, coded, sentTo>>
  BY DEF PairingInv, SessionRead
<1>2. other \subseteq Starts /\ other \subseteq Starts \cup {None}
  BY <1>1, PairingTypes
<1>3. s \in crossed \/ child[s] = "gone"
  BY <1>1 DEF PairingInv
<1>4. entry[s].approval # None /\ pending # None => pending = s \/ pending \in other
  OBVIOUS
<1> HIDE DEF other, result
<1>5. /\ entry' \in [Starts -> EntryType]
      /\ \A x \in Starts \ {s} : entry'[x] = entry[x]
      /\ start' \in [Starts -> {"new", "making", "waiting", "answered", "failed"}]
      /\ \A x \in Starts : start'[x] \in {"new", "making"} => start[x] \in {"new", "making"}
      /\ verify' \in [Verifies -> {"new", "waiting", "session", "failed"}]
      /\ pending' \in {pending, None} /\ cookies' \subseteq cookies
      /\ entry[s].approval = None => pending' = pending
  BY <1>1, ReportsFacts
<1>6. dropped' \subseteq Starts \cup Verifies
  <2>1. \A p \in other : Waiting(p) \subseteq Starts \cup Verifies
    BY <1>1, <1>2, WaitingTyped
  <2> QED BY <1>1, <2>1, PairingTypes
<1>7. PairingTypeOK'
  <2>1. crossed' \subseteq Starts /\ reading' \subseteq (Starts \X Starts)
    BY <1>1, <1>2, PairingTypes
  <2> QED BY <1>1, <1>5, <1>6, <2>1, PairingTypes DEF PairingTypeOK, EntryType
<1>8. \A x \in Starts : entry'[x].settled = entry[x].settled
                       \/ x \in crossed' \/ child'[x] # "running"
  BY <1>1, <1>3, <1>5
<1>9. pending' = pending \/ pending = None \/ child'[pending] # "running" \/ pending \in crossed'
  BY <1>1, <1>3, <1>4, <1>5
<1> QED BY <1>1, <1>5, <1>7, <1>8, <1>9, PairingKept

(* A verify is answered by the result that waits for it, or waits itself.  *)
LEMMA VerifyKeeps ==
    ASSUME PairingInv, NEW v \in Verifies, Verify(v)
    PROVE  PairingInv'
<1>1. /\ PairingTypeOK /\ pending \in Starts \cup {None}
      /\ UNCHANGED <<child, said, cookies, reading, start, crossed>>
  BY PairingTypes DEF PairingInv, Verify
<1>2. CASE UNCHANGED entry
  <2>1. /\ coded' \subseteq Starts /\ dropped' \subseteq Starts \cup Verifies
        /\ sentTo' \in [Verifies -> Starts \cup {None}] /\ pending' \in Starts \cup {None}
        /\ verify' \in [Verifies -> {"new", "waiting", "session", "failed"}]
    BY <1>1, <1>2, WaitingTyped, PairingTypes DEF Verify
  <2>2. PairingTypeOK'
    BY <1>1, <1>2, <2>1, PairingTypes DEF PairingTypeOK, EntryType
  <2>3. pending' = pending \/ pending = None \/ child[pending] # "running" \/ pending \in crossed
    BY <1>1 DEF Verify, PairingInv
  <2> QED BY <1>1, <1>2, <2>2, <2>3, PairingKept
<1>3. CASE ~UNCHANGED entry
  <2>1. /\ pending \in Starts /\ UNCHANGED pending
        /\ verify' = [verify EXCEPT ![v] = "waiting"]
        /\ coded' \in {coded, coded \cup {pending}}
        /\ sentTo' = sentTo \/ sentTo' = [sentTo EXCEPT ![v] = pending]
        /\ dropped' = dropped \cup (Waiting(pending) \cap Verifies)
    BY <1>1, <1>3 DEF Verify
  <2> DEFINE r == [entry[pending] EXCEPT !.approval = v]
  <2>2. entry' = [entry EXCEPT ![pending] = r] /\ entry[pending] \in EntryType
    BY <1>1, <1>3, <2>1, PairingTypes DEF Verify
  <2>3. r \in EntryType /\ r.settled = entry[pending].settled
    BY <2>2, EntryUpdates
  <2> HIDE DEF r
  <2>4. /\ entry' \in [Starts -> EntryType]
        /\ \A x \in Starts : entry'[x].settled = entry[x].settled
    BY <1>1, <2>1, <2>2, <2>3, EntryGoes
  <2>5. PairingTypeOK'
    BY <1>1, <2>1, <2>4, PairingTypes DEF PairingTypeOK, EntryType
  <2> QED BY <1>1, <2>1, <2>4, <2>5, PairingKept
<1> QED BY <1>2, <1>3

LEMMA WriteFailsKeeps ==
    ASSUME PairingInv, NEW v \in Verifies, WriteFails(v)
    PROVE  PairingInv'
<1> DEFINE s == sentTo[v]
           r == [entry[s] EXCEPT !.approval = None]
<1>1. /\ PairingTypeOK /\ s \in Starts
      /\ UNCHANGED <<pending, child, said, coded, cookies, reading, start, crossed>>
  BY PairingTypes DEF PairingInv, WriteFails
<1>2. /\ entry' = [entry EXCEPT ![s] = r] /\ entry[s] \in EntryType
      /\ sentTo' = [sentTo EXCEPT ![v] = None]
      /\ verify' = [verify EXCEPT ![v] = IF @ = "waiting" THEN "failed" ELSE @]
      /\ dropped' = dropped \cup (Waiting(s) \cap (Verifies \ {v}))
  BY <1>1, PairingTypes DEF WriteFails
<1> HIDE DEF s
<1>3. r \in EntryType /\ r.settled = entry[s].settled
  BY <1>2, EntryUpdates
<1> HIDE DEF r
<1>4. /\ entry' \in [Starts -> EntryType]
      /\ \A x \in Starts : entry'[x].settled = entry[x].settled
  BY <1>1, <1>2, <1>3, EntryGoes
<1>5. PairingTypeOK'
  BY <1>1, <1>2, <1>4, PairingTypes DEF PairingTypeOK, EntryType
<1> QED BY <1>1, <1>4, <1>5, PairingKept

LEMMA PairingInitHolds == ASSUME PairingInit PROVE PairingInv
<1>1. /\ \A s \in Starts : child[s] = "none" /\ entry[s].settled = "no"
      /\ reading = {}
  BY DEF PairingInit, NewEntry
<1>2. entry \in [Starts -> EntryType]
  BY DEF PairingInit, NewEntry, EntryType
<1>3. PairingTypeOK
  BY <1>2 DEF PairingInit, PairingTypeOK, EntryType
<1> QED BY <1>1, <1>3 DEF PairingInv, NoChildLeft

LEMMA PairingNextHolds == PairingInv /\ [PairingNext]_pairingVars => PairingInv'
<1> SUFFICES ASSUME PairingInv, [PairingNext]_pairingVars PROVE PairingInv'
  OBVIOUS
<1>1. CASE UNCHANGED pairingVars
  BY <1>1 DEF pairingVars, PairingInv, PairingTypeOK, NoChildLeft
<1> QED BY <1>1, CancelKeeps, SpawnsKeep, LinesKeep, FailKeeps, ExitKeeps, SessionKeeps,
           VerifyKeeps, WriteFailsKeeps DEF PairingNext

(* However many pairings and verifies come, and in whatever order ends,    *)
(* timers and errors of the login processes are reported, none is left     *)
(* running but that of the pairing in the map, where no other pairing      *)
(* interfered (core.ts:267-278).                                           *)
THEOREM NoLoginLeftRunning == PairingSpec => []NoChildLeft
<1>1. PairingInit => PairingInv
  BY PairingInitHolds
<1>2. PairingInv => NoChildLeft
  BY DEF PairingInv
<1> QED BY <1>1, <1>2, PairingNextHolds, PTL DEF PairingSpec

-----------------------------------------------------------------------------
(* Loans.                                                                  *)
USE LoansAssumption

(* What a request is about.                                                *)
AskedOf(q) ==
    /\ proc[q].kind \in {"create", "edit"} => proc[q].id \in Manual
    /\ proc[q].kind = "skip" => proc[q].id \in Installments
    /\ proc[q].kind = "create" => proc[q].seen = NoLoan
    /\ proc[q].pc = "read" => proc[q].kind \in {"create", "edit"}

(* What was read under the lock still holds: the row locks of the loan let *)
(* nobody cover an installment in between, but edits that take no lock.    *)
HoldsUnderLock(q) ==
    proc[q].pc = "locked" =>
        /\ proc[q].kind = "book" =>
              ~closed /\ \A n \in proc[q].books \ relinked : n \notin skipped /\ ~Covered(n)
        /\ proc[q].kind \in {"create", "edit"} /\ proc[q].to \in Installments \ relinked =>
              \A id \in Ids \ {proc[q].id} : ~Covers(id, proc[q].to)

LoanInv ==
    /\ TypeOK
    /\ \A q \in Procs : AskedOf(q) /\ HoldsUnderLock(q)
    /\ rows[Payoff] \in {NoRow, Extra}
    /\ SettledOnce /\ ClosedWhilePaidOff

RequestType ==
    [pc: Steps, kind: Kinds, id: Ids, to: Links, seen: Links, owed: Int,
     books: SUBSET Installments]

LEMMA TypeFacts ==
    ASSUME TypeOK
    PROVE  /\ proc \in [Procs -> RequestType] /\ rows \in [Ids -> Links \cup {NoRow}]
           /\ skipped \subseteq Installments /\ relinked \subseteq Installments
           /\ \A q \in Procs : lock = q <=> proc[q].pc = "locked"
BY DEF TypeOK, RequestType

LEMMA IdleType == Idle \in RequestType /\ Idle.pc = "new" /\ Idle.kind = "book"
BY DEF Idle, RequestType, Steps, Kinds, Ids, Links

(* The repayments are finite, so that the principal repaid is a number.    *)
LEMMA OutstandingType == TypeOK => Outstanding \in Int
<1> SUFFICES ASSUME TypeOK PROVE Outstanding \in Int
  OBVIOUS
<1>1. IsFiniteSet(Ids)
  <2>1. IsFiniteSet(Installments)
    BY FS_Interval DEF Installments
  <2>2. IsFiniteSet(Installments \cup {Payoff})
    BY <2>1, FS_AddElement
  <2> QED BY <2>2, FS_Union DEF Ids
<1>2. IsFiniteSet(Legs \ {Payoff})
  BY <1>1, FS_Subset DEF Legs
<1>3. Cardinality(Legs \ {Payoff}) \in Nat
  BY <1>2, FS_CardinalityType
<1> QED BY <1>3 DEF Outstanding, Repaid, TypeOK

-----------------------------------------------------------------------------
(* Requests that come, wait or are aborted change nothing of the loan.     *)
LEMMA QuietSteps ==
    ASSUME LoanInv, TypeOK', UNCHANGED <<closed, skipped, rows, relinked>>,
           \A q \in Procs : AskedOf(q)',
           \A q \in Procs : proc'[q] = proc[q] \/ proc'[q].pc # "locked"
    PROVE  LoanInv'
<1>1. \A q \in Procs : HoldsUnderLock(q)'
  BY DEF LoanInv, HoldsUnderLock, Covered, Covers
<1>2. SettledOnce' /\ ClosedWhilePaidOff' /\ rows'[Payoff] \in {NoRow, Extra}
  BY DEF LoanInv, SettledOnce, ClosedWhilePaidOff, Covered, Covers, Exists
<1> QED BY <1>1, <1>2 DEF LoanInv

(* A request that had the lock ends, or goes on to book.                   *)
LEMMA Committing ==
    ASSUME LoanInv, NEW q \in Procs, Commits(q), Ends(q) \/ ThenBooks(q)
    PROVE  /\ proc' \in [Procs -> RequestType]
           /\ \A r \in Procs : lock' = r <=> proc'[r].pc = "locked"
           /\ \A r \in Procs : AskedOf(r)' /\ HoldsUnderLock(r)'
           /\ lock' \in Procs \cup {NoOne}
<1>1. proc \in [Procs -> RequestType] /\ proc[q] \in RequestType
      /\ \A r \in Procs : lock = r <=> proc[r].pc = "locked"
  BY TypeFacts DEF LoanInv
<1>2. NoOne \notin Procs
  BY DEF Procs
<1> DEFINE ended == [Idle EXCEPT !.pc = IF q = Job THEN "new" ELSE "over"]
           booking == [proc[q] EXCEPT !.pc = "asks", !.kind = "book"]
<1>3. /\ ended \in RequestType /\ ended.pc \notin {"locked", "read"} /\ ended.kind = "book"
      /\ booking \in RequestType /\ booking.pc \notin {"locked", "read"} /\ booking.kind = "book"
  BY <1>1, IdleType DEF RequestType, Steps, Kinds
<1>4. proc' = [proc EXCEPT ![q] = ended] \/ proc' = [proc EXCEPT ![q] = booking]
  BY <1>1 DEF Ends, ThenBooks
<1> HIDE DEF ended, booking
<1>5. proc' \in [Procs -> RequestType]
      /\ proc'[q].pc \notin {"locked", "read"} /\ proc'[q].kind = "book"
      /\ \A r \in Procs \ {q} : proc'[r] = proc[r]
  BY <1>1, <1>3, <1>4
<1>6. lock' = NoOne /\ \A r \in Procs : proc'[r].pc # "locked"
  BY <1>1, <1>5 DEF Commits
<1>7. \A r \in Procs : AskedOf(r)'
  BY <1>5 DEF LoanInv, AskedOf
<1> QED BY <1>2, <1>5, <1>6, <1>7 DEF HoldsUnderLock

(* Rows that go cover nothing any more.                                    *)
LEMMA RemovedFacts ==
    ASSUME TypeOK, NEW ids, Removed(ids)
    PROVE  /\ rows' \in [Ids -> Links \cup {NoRow}]
           /\ \A id \in Ids : rows'[id] = IF id \in ids THEN NoRow ELSE rows[id]
BY DEF TypeOK, Removed

LEMMA BooksKeeps ==
    ASSUME LoanInv, NEW q \in Procs, Books(q)
    PROVE  LoanInv' /\ (closed => UNCHANGED rows)
<1>1. /\ TypeOK /\ rows \in [Ids -> Links \cup {NoRow}] /\ Commits(q) /\ Ends(q)
      /\ UNCHANGED <<today, closed, skipped, paid, relinked>>
  BY TypeFacts DEF LoanInv, Books
<1> DEFINE books == proc[q].books
<1>2. ~closed /\ books \subseteq Installments
      /\ \A n \in books \ relinked : n \notin skipped /\ ~Covered(n)
  <2>1. proc[q] \in RequestType
    BY <1>1, TypeFacts
  <2>2. HoldsUnderLock(q) /\ proc[q].pc = "locked" /\ proc[q].kind = "book"
    BY DEF LoanInv, Books, Commits
  <2> QED BY <2>1, <2>2 DEF HoldsUnderLock, RequestType
<1>3. /\ rows' \in [Ids -> Links \cup {NoRow}]
      /\ \A id \in Ids : rows'[id] = IF id \in books /\ ~Exists(id) THEN id ELSE rows[id]
  BY <1>1, <1>2 DEF Books, Ids, Links
<1>4. TypeOK'
  BY <1>1, <1>3, Committing DEF TypeOK, RequestType
<1>5. SettledOnce'
  <2> SUFFICES ASSUME NEW n \in Installments \ relinked
               PROVE  /\ \A x, y \in Ids : Covers(x, n)' /\ Covers(y, n)' => x = y
                      /\ n \in skipped => ~Covered(n)'
    BY <1>1 DEF SettledOnce
  <2>1. \A x \in Ids : Covers(x, n)' => Covers(x, n) \/ (x = n /\ n \in books)
    BY <1>3 DEF Covers
  <2>2. n \in books => n \notin skipped /\ \A x \in Ids : ~Covers(x, n)
    BY <1>2 DEF Covered
  <2>3. /\ \A x, y \in Ids : Covers(x, n) /\ Covers(y, n) => x = y
        /\ n \in skipped => ~Covered(n)
    BY DEF LoanInv, SettledOnce
  <2> QED BY <2>1, <2>2, <2>3 DEF Covered
<1>6. rows'[Payoff] = rows[Payoff]
  BY <1>2, <1>3 DEF Ids, Installments
<1>7. ClosedWhilePaidOff'
  BY <1>1, <1>6 DEF LoanInv, ClosedWhilePaidOff, Exists
<1> QED BY <1>1, <1>2, <1>4, <1>5, <1>6, <1>7, Committing DEF LoanInv

LEMMA SkipsKeeps ==
    ASSUME LoanInv, NEW q \in Procs, Skips(q)
    PROVE  LoanInv'
<1> DEFINE n == proc[q].id
           ids == {id \in Ids : Covers(id, n)}
<1>1. /\ TypeOK /\ Commits(q) /\ Ends(q) /\ Removed(ids)
      /\ skipped' = skipped \cup {n}
      /\ UNCHANGED <<today, closed, paid, relinked>>
  BY DEF LoanInv, Skips
<1>2. n \in Installments
  BY DEF LoanInv, AskedOf, Skips
<1>3. /\ rows' \in [Ids -> Links \cup {NoRow}]
      /\ \A id \in Ids : rows'[id] = IF id \in ids THEN NoRow ELSE rows[id]
  BY <1>1, RemovedFacts
<1>4. TypeOK'
  BY <1>1, <1>2, <1>3, Committing DEF TypeOK, RequestType
<1>5. SettledOnce'
  <2> SUFFICES ASSUME NEW m \in Installments \ relinked
               PROVE  /\ \A x, y \in Ids : Covers(x, m)' /\ Covers(y, m)' => x = y
                      /\ m \in skipped' => ~Covered(m)'
    BY <1>1 DEF SettledOnce
  <2>1. \A x \in Ids : Covers(x, m)' => Covers(x, m) /\ m # n
    BY <1>3 DEF Covers, NoRow, Installments
  <2>2. /\ \A x, y \in Ids : Covers(x, m) /\ Covers(y, m) => x = y
        /\ m \in skipped => ~Covered(m)
    BY DEF LoanInv, SettledOnce
  <2> QED BY <1>1, <2>1, <2>2 DEF Covered
<1>6. rows'[Payoff] = rows[Payoff]
  BY <1>2, <1>3 DEF LoanInv, Covers, Installments, NoRow, Extra, Ids
<1>7. ClosedWhilePaidOff'
  BY <1>1, <1>6 DEF LoanInv, ClosedWhilePaidOff, Exists
<1> QED BY <1>1, <1>4, <1>5, <1>6, <1>7, Committing DEF LoanInv

LEMMA UnskipsKeeps ==
    ASSUME LoanInv, NEW q \in Procs, Unskips(q)
    PROVE  LoanInv'
<1>1. /\ TypeOK /\ Commits(q) /\ ThenBooks(q)
      /\ skipped' \subseteq skipped /\ UNCHANGED <<today, closed, rows, paid, relinked>>
  BY DEF LoanInv, Unskips
<1>2. TypeOK'
  BY <1>1, Committing DEF TypeOK, RequestType
<1>3. SettledOnce' /\ ClosedWhilePaidOff'
  BY <1>1 DEF LoanInv, SettledOnce, ClosedWhilePaidOff, Covered, Covers, Exists
<1> QED BY <1>1, <1>2, <1>3, Committing DEF LoanInv

LEMMA PaysOffKeeps ==
    ASSUME LoanInv, NEW q \in Procs, PaysOff(q)
    PROVE  LoanInv' /\ \A n \in Installments : Exists(n)' => Exists(n)
<1>1. /\ TypeOK /\ Commits(q) /\ Ends(q)
      /\ rows' = [rows EXCEPT ![Payoff] = Extra] /\ paid' = proc[q].owed /\ closed' = TRUE
      /\ UNCHANGED <<today, skipped, relinked>>
  BY DEF LoanInv, PaysOff
<1>2. /\ rows' \in [Ids -> Links \cup {NoRow}] /\ rows'[Payoff] = Extra
      /\ \A id \in Ids \ {Payoff} : rows'[id] = rows[id]
      /\ proc[q] \in RequestType
  BY <1>1, TypeFacts DEF Ids, Links
<1>3. TypeOK'
  BY <1>1, <1>2, Committing DEF TypeOK, RequestType
<1>4. \A n \in Installments, x \in Ids : Covers(x, n)' => Covers(x, n)
  BY <1>2 DEF Covers, Installments, Extra
<1>5. SettledOnce'
  BY <1>1, <1>4 DEF LoanInv, SettledOnce, Covered
<1>6. ClosedWhilePaidOff'
  BY <1>1, <1>2 DEF ClosedWhilePaidOff, Exists, NoRow, Extra
<1>7. \A n \in Installments : Exists(n)' => Exists(n)
  BY <1>2 DEF Exists, Ids, Installments
<1> QED BY <1>2, <1>3, <1>5, <1>6, <1>7, Committing, <1>1 DEF LoanInv

LEMMA ReopensKeeps ==
    ASSUME LoanInv, NEW q \in Procs, Reopens(q)
    PROVE  LoanInv'
<1>1. /\ TypeOK /\ Commits(q) /\ ThenBooks(q) /\ Removed({Payoff})
      /\ closed' = FALSE /\ UNCHANGED <<today, skipped, paid, relinked>>
  BY DEF LoanInv, Reopens
<1>2. /\ rows' \in [Ids -> Links \cup {NoRow}]
      /\ \A id \in Ids : rows'[id] = IF id = Payoff THEN NoRow ELSE rows[id]
  BY <1>1, RemovedFacts
<1>3. TypeOK'
  BY <1>1, <1>2, Committing DEF TypeOK, RequestType
<1>4. SettledOnce'
  BY <1>1, <1>2 DEF LoanInv, SettledOnce, Covered, Covers, NoRow, Installments
<1>5. rows'[Payoff] = NoRow
  BY <1>2 DEF Ids
<1>6. ClosedWhilePaidOff'
  BY <1>1, <1>5 DEF ClosedWhilePaidOff, Exists
<1> QED BY <1>1, <1>3, <1>4, <1>5, <1>6, Committing DEF LoanInv

(* A repayment gets the link that was validated under the lock.            *)
LEMMA LinksKeeps ==
    ASSUME LoanInv, NEW q \in Procs, LinksUnderLock(q)
    PROVE  LoanInv' /\ \A n \in Installments : Exists(n)' => Exists(n)
<1> DEFINE id == proc[q].id
           to == proc[q].to
<1>1. /\ TypeOK /\ Commits(q) /\ Ends(q) /\ skipped' = skipped \ {to}
      /\ rows' = [rows EXCEPT ![id] = to] \/ rows' = rows
      /\ UNCHANGED <<today, closed, paid, relinked>>
  BY DEF LoanInv, LinksUnderLock, WritesLink, Unflagged
<1>2. id \in Manual /\ to \in Links
  BY <1>1, TypeFacts DEF LoanInv, AskedOf, LinksUnderLock, RequestType
<1>3. /\ rows' \in [Ids -> Links \cup {NoRow}]
      /\ \A x \in Ids : rows'[x] = rows[x] \/ (x = id /\ rows'[x] = to)
  BY <1>1, <1>2, TypeFacts DEF Ids
<1>4. TypeOK'
  BY <1>1, <1>3, Committing DEF TypeOK, RequestType
<1>5. to \in Installments \ relinked => \A x \in Ids \ {id} : ~Covers(x, to)
  BY DEF LoanInv, HoldsUnderLock, LinksUnderLock, Commits
<1>6. SettledOnce'
  <2> SUFFICES ASSUME NEW n \in Installments \ relinked
               PROVE  /\ \A x, y \in Ids : Covers(x, n)' /\ Covers(y, n)' => x = y
                      /\ n \in skipped' => ~Covered(n)'
    BY <1>1 DEF SettledOnce
  <2>1. \A x \in Ids : Covers(x, n)' => Covers(x, n) \/ (x = id /\ n = to)
    BY <1>3 DEF Covers
  <2>2. /\ \A x, y \in Ids : Covers(x, n) /\ Covers(y, n) => x = y
        /\ n \in skipped => ~Covered(n)
    BY DEF LoanInv, SettledOnce
  <2> QED BY <1>1, <1>5, <2>1, <2>2 DEF Covered
<1>7. \A x \in Ids \ Manual : rows'[x] = rows[x]
  BY <1>2, <1>3
<1>8. ClosedWhilePaidOff' /\ rows'[Payoff] = rows[Payoff]
  BY <1>1, <1>7 DEF LoanInv, ClosedWhilePaidOff, Exists, Ids
<1>9. \A n \in Installments : Exists(n)' => Exists(n)
  BY <1>7 DEF Exists, Ids, Installments
<1> QED BY <1>1, <1>4, <1>6, <1>8, <1>9, Committing DEF LoanInv

(* A request that has no lock ends.                                        *)
LEMMA Ending ==
    ASSUME TypeOK, NEW q \in Procs, proc[q].pc # "locked", Ends(q), UNCHANGED lock
    PROVE  /\ proc' \in [Procs -> RequestType]
           /\ \A r \in Procs : lock' = r <=> proc'[r].pc = "locked"
           /\ proc'[q].pc \notin {"locked", "read"} /\ proc'[q].kind = "book"
           /\ \A r \in Procs \ {q} : proc'[r] = proc[r]
<1>1. proc \in [Procs -> RequestType]
      /\ \A r \in Procs : lock = r <=> proc[r].pc = "locked"
  BY TypeFacts
<1> DEFINE ended == [Idle EXCEPT !.pc = IF q = Job THEN "new" ELSE "over"]
<1>2. ended \in RequestType /\ ended.pc \notin {"locked", "read"} /\ ended.kind = "book"
  BY IdleType DEF RequestType, Steps, Kinds
<1>3. proc' = [proc EXCEPT ![q] = ended]
  BY DEF Ends
<1> HIDE DEF ended
<1> QED BY <1>1, <1>2, <1>3

(* An edit that takes no lock writes the link it read; where another has   *)
(* changed it since, the installment is named by relinked.                 *)
LEMMA EditsKeeps ==
    ASSUME LoanInv, NEW q \in Procs, EditsOnly(q)
    PROVE  LoanInv' /\ \A n \in Installments : Exists(n)' => Exists(n)
<1> DEFINE id == proc[q].id
           to == proc[q].to
<1>1. /\ TypeOK /\ proc[q].pc = "read" /\ Ends(q) /\ proc[q] \in RequestType
      /\ UNCHANGED <<today, closed, skipped, paid, lock>>
  BY TypeFacts DEF LoanInv, EditsOnly, WritesLink
<1>2. rows' = (IF proc[q].kind = "create" \/ Exists(id) THEN [rows EXCEPT ![id] = to] ELSE rows)
  BY DEF EditsOnly, WritesLink
<1>3. relinked' = (IF Exists(id) /\ rows[id] # proc[q].seen
                   THEN relinked \cup ({to} \cap Installments) ELSE relinked)
  BY DEF EditsOnly
<1>4. to = proc[q].seen \/ to = NoLoan
  BY DEF EditsOnly, NeedsLoan
<1>5. /\ proc[q].kind \in {"create", "edit"} /\ id \in Manual /\ id \in Ids /\ to \in Links
      /\ proc[q].kind = "create" => to = NoLoan
  BY <1>1, <1>4 DEF LoanInv, AskedOf, Ids, RequestType
<1>6. /\ rows' \in [Ids -> Links \cup {NoRow}]
      /\ \A x \in Ids \ {id} : rows'[x] = rows[x]
      /\ rows'[id] = IF proc[q].kind = "create" \/ Exists(id) THEN to ELSE rows[id]
  BY <1>1, <1>2, <1>5, TypeFacts
<1>7. relinked \subseteq relinked' /\ relinked' \subseteq Installments
  BY <1>1, <1>3, TypeFacts
<1>8. \A n \in Installments \ relinked', x \in Ids : Covers(x, n)' => Covers(x, n)
  BY <1>3, <1>4, <1>5, <1>6 DEF Covers, NoLoan, Installments
<1>9. /\ proc' \in [Procs -> RequestType]
      /\ \A r \in Procs : lock' = r <=> proc'[r].pc = "locked"
      /\ proc'[q].pc \notin {"locked", "read"} /\ proc'[q].kind = "book"
      /\ \A r \in Procs \ {q} : proc'[r] = proc[r]
  BY <1>1, Ending
<1>10. TypeOK'
  BY <1>1, <1>6, <1>7, <1>9 DEF TypeOK, RequestType
<1>11. \A r \in Procs : AskedOf(r)'
  BY <1>9 DEF LoanInv, AskedOf
<1>12. \A r \in Procs : HoldsUnderLock(r)'
  <2> SUFFICES ASSUME NEW r \in Procs, r # q
               PROVE  HoldsUnderLock(r)'
    BY <1>9 DEF HoldsUnderLock
  <2>1. proc'[r] = proc[r] /\ proc[r] \in RequestType /\ HoldsUnderLock(r)
    BY <1>1, <1>9, TypeFacts DEF LoanInv
  <2>2. proc[r].books \subseteq Installments
    BY <2>1 DEF RequestType
  <2> QED BY <1>1, <1>7, <1>8, <2>1, <2>2 DEF HoldsUnderLock, Covered
<1>13. SettledOnce'
  BY <1>1, <1>7, <1>8 DEF LoanInv, SettledOnce, Covered
<1>14. \A x \in Ids \ Manual : rows'[x] = rows[x]
  BY <1>5, <1>6
<1>15. ClosedWhilePaidOff' /\ rows'[Payoff] = rows[Payoff]
  BY <1>1, <1>14 DEF LoanInv, ClosedWhilePaidOff, Exists, Ids
<1>16. \A n \in Installments : Exists(n)' => Exists(n)
  BY <1>14 DEF Exists, Ids, Installments
<1> QED BY <1>10, <1>11, <1>12, <1>13, <1>15, <1>16 DEF LoanInv

(* A delete settles its installment as skipped, under the lock of the loan *)
(* if it has one.                                                          *)
LEMMA DeletesKeeps ==
    ASSUME LoanInv, NEW q \in Procs, Deletes(q)
    PROVE  LoanInv' /\ \A n \in Installments : Exists(n)' => Exists(n)
<1> DEFINE id == proc[q].id
<1>1. /\ TypeOK /\ proc[q].pc = "deleting" /\ Ends(q) /\ Removed({id}) /\ id \in Ids
      /\ rows[id] \in Installments \/ id = Payoff => lock = NoOne
      /\ skipped' = skipped \cup ({rows[id]} \cap Installments)
      /\ closed' = (closed /\ id # Payoff)
      /\ UNCHANGED <<today, paid, lock, relinked>>
  BY TypeFacts DEF LoanInv, Deletes, LockFree, ClosedAfter, RequestType
<1>2. /\ rows' \in [Ids -> Links \cup {NoRow}]
      /\ \A x \in Ids : rows'[x] = IF x \in {id} THEN NoRow ELSE rows[x]
  BY <1>1, RemovedFacts
<1>3. /\ proc' \in [Procs -> RequestType]
      /\ \A r \in Procs : lock' = r <=> proc'[r].pc = "locked"
      /\ proc'[q].pc \notin {"locked", "read"} /\ proc'[q].kind = "book"
      /\ \A r \in Procs \ {q} : proc'[r] = proc[r]
  BY <1>1, Ending
<1>4. TypeOK'
  BY <1>1, <1>2, <1>3 DEF TypeOK, RequestType
<1>5. \A n \in Installments, x \in Ids : Covers(x, n)' => Covers(x, n) /\ x # id
  BY <1>2 DEF Covers, NoRow, Installments
<1>6. \A r \in Procs : AskedOf(r)'
  BY <1>3 DEF LoanInv, AskedOf
<1>7. \A r \in Procs : HoldsUnderLock(r)'
  <2> SUFFICES ASSUME NEW r \in Procs, proc'[r].pc = "locked"
               PROVE  HoldsUnderLock(r)'
    BY DEF HoldsUnderLock
  <2>1. lock = r /\ r # NoOne /\ proc'[r] = proc[r]
    BY <1>1, <1>3 DEF Procs
  <2>2. skipped' = skipped /\ closed' = closed
    <3>1. rows[id] \notin Installments /\ id # Payoff
      BY <1>1, <2>1
    <3>2. closed \in BOOLEAN
      BY <1>1 DEF TypeOK
    <3> QED BY <1>1, <3>1, <3>2
  <2>3. HoldsUnderLock(r) /\ proc[r] \in RequestType
    BY <1>1, TypeFacts DEF LoanInv
  <2>4. proc[r].books \subseteq Installments
    BY <2>3 DEF RequestType
  <2> QED BY <1>1, <1>5, <2>1, <2>2, <2>3, <2>4 DEF HoldsUnderLock, Covered
<1>8. SettledOnce'
  <2> SUFFICES ASSUME NEW n \in Installments \ relinked
               PROVE  /\ \A x, y \in Ids : Covers(x, n)' /\ Covers(y, n)' => x = y
                      /\ n \in skipped' => ~Covered(n)'
    BY <1>1 DEF SettledOnce
  <2>1. /\ \A x, y \in Ids : Covers(x, n) /\ Covers(y, n) => x = y
        /\ n \in skipped => ~Covered(n)
    BY DEF LoanInv, SettledOnce
  <2>2. n \in skipped' => n \in skipped \/ Covers(id, n)
    BY <1>1 DEF Covers
  <2> QED BY <1>1, <1>5, <2>1, <2>2 DEF Covered
<1>9. ClosedWhilePaidOff' /\ rows'[Payoff] \in {NoRow, Extra}
  BY <1>1, <1>2 DEF LoanInv, ClosedWhilePaidOff, Exists, Ids
<1>10. \A n \in Installments : Exists(n)' => Exists(n)
  BY <1>2 DEF Exists, Ids
<1> QED BY <1>4, <1>6, <1>7, <1>8, <1>9, <1>10 DEF LoanInv

(* A request gets the lock and reads: what it is about is not covered.     *)
LEMMA LocksKeeps ==
    ASSUME LoanInv, NEW q \in Procs, Locks(q)
    PROVE  LoanInv'
<1>1. /\ TypeOK /\ NeedsLoan(q) /\ lock = NoOne /\ proc[q] \in RequestType
      /\ proc \in [Procs -> RequestType] /\ proc[q].pc # "locked"
      /\ UNCHANGED <<today, closed, skipped, rows, paid, relinked>>
  BY TypeFacts DEF LoanInv, Locks, LockFree, NeedsLoan
<1>2. CASE Refused(q)
  <2>1. Ends(q) /\ UNCHANGED lock
    BY <1>2 DEF Locks
  <2>2. TypeOK' /\ \A r \in Procs : AskedOf(r)'
    BY <1>1, <2>1, Ending DEF TypeOK, RequestType, LoanInv, AskedOf
  <2>3. \A r \in Procs : proc'[r] = proc[r] \/ proc'[r].pc # "locked"
    BY <1>1, <2>1, Ending
  <2> QED BY <1>1, <2>2, <2>3, QuietSteps
<1>3. CASE ~Refused(q)
  <2>1. /\ proc' = [proc EXCEPT ![q].pc = "locked", ![q].owed = Outstanding, ![q].books = Due]
        /\ lock' = q
    BY <1>3 DEF Locks
  <2>2. /\ proc'[q].pc = "locked" /\ proc'[q].books = Due /\ proc'[q].kind = proc[q].kind
        /\ proc'[q].id = proc[q].id /\ proc'[q].to = proc[q].to
        /\ proc'[q].seen = proc[q].seen
        /\ \A r \in Procs \ {q} : proc'[r] = proc[r]
    BY <1>1, <2>1 DEF RequestType
  <2>3. proc' \in [Procs -> RequestType]
    <3>1. Outstanding \in Int /\ Due \subseteq Installments
      BY <1>1, OutstandingType DEF Due
    <3> QED BY <1>1, <2>1, <3>1 DEF RequestType, Steps
  <2>4. \A r \in Procs : lock' = r <=> proc'[r].pc = "locked"
    <3>1. \A r \in Procs : proc[r].pc # "locked"
      BY <1>1, TypeFacts DEF Procs
    <3> QED BY <2>1, <2>2, <3>1
  <2>5. TypeOK'
    BY <1>1, <2>1, <2>3, <2>4 DEF TypeOK, RequestType
  <2>6. \A r \in Procs : AskedOf(r)'
    BY <2>2 DEF LoanInv, AskedOf
  <2>7. \A r \in Procs : HoldsUnderLock(r)'
    <3> SUFFICES HoldsUnderLock(q)'
      BY <2>1, <2>4 DEF HoldsUnderLock
    <3>1. proc[q].kind = "book" =>
             ~closed /\ \A n \in Due : n \notin skipped /\ ~Covered(n)
      BY <1>3 DEF Refused, Due
    <3>2. proc[q].kind \in {"create", "edit"} /\ proc[q].to \in Installments =>
             \A id \in Ids \ {proc[q].id} : ~Covers(id, proc[q].to)
      BY <1>3 DEF Refused, Clash
    <3> QED BY <1>1, <2>2, <3>1, <3>2 DEF HoldsUnderLock, Covered, Covers
  <2>8. SettledOnce' /\ ClosedWhilePaidOff' /\ rows'[Payoff] \in {NoRow, Extra}
    BY <1>1 DEF LoanInv, SettledOnce, ClosedWhilePaidOff, Covered, Covers, Exists
  <2> QED BY <2>5, <2>6, <2>7, <2>8 DEF LoanInv
<1> QED BY <1>2, <1>3

LEMMA DeadlockKeeps ==
    ASSUME LoanInv, NEW q \in Procs, NEW r \in Requests, Deadlock(q, r)
    PROVE  LoanInv'
<1>1. /\ TypeOK /\ UNCHANGED <<today, closed, skipped, rows, paid, relinked>>
      /\ proc[q].pc = "locked" /\ proc[r].pc = "deleting" /\ r \in Procs
  BY DEF LoanInv, Deadlock, WaitsForRow, Procs
<1>2. SettledOnce' /\ ClosedWhilePaidOff' /\ rows'[Payoff] \in {NoRow, Extra}
  BY <1>1 DEF LoanInv, SettledOnce, ClosedWhilePaidOff, Covered, Covers, Exists
<1>3. CASE Ends(q) /\ lock' = NoOne
  <2>1. Commits(q)
    BY <1>1, <1>3 DEF Commits
  <2>2. TypeOK'
    BY <1>1, <1>3, <2>1, Committing DEF TypeOK, RequestType
  <2> QED BY <1>2, <1>3, <2>1, <2>2, Committing DEF LoanInv
<1>4. CASE Ends(r) /\ UNCHANGED lock
  <2>1. TypeOK' /\ \A x \in Procs : AskedOf(x)'
    BY <1>1, <1>4, Ending DEF TypeOK, RequestType, LoanInv, AskedOf
  <2>2. \A x \in Procs : proc'[x] = proc[x] \/ proc'[x].pc # "locked"
    BY <1>1, <1>4, Ending
  <2> QED BY <1>1, <2>1, <2>2, QuietSteps
<1> QED BY <1>3, <1>4 DEF Deadlock

(* A request comes in, or the job starts.                                  *)
LEMMA BeginningKeeps ==
    ASSUME LoanInv, NEW q \in Procs, NEW record \in RequestType,
           proc[q].pc # "locked", record.pc # "locked",
           proc' = [proc EXCEPT ![q] = record],
           UNCHANGED <<today, closed, skipped, rows, paid, lock, relinked>>,
           record.kind \in {"create", "edit"} => record.id \in Manual,
           record.kind = "skip" => record.id \in Installments,
           record.kind = "create" => record.seen = NoLoan,
           record.pc = "read" => record.kind \in {"create", "edit"}
    PROVE  LoanInv'
<1>1. TypeOK /\ proc \in [Procs -> RequestType]
  BY TypeFacts DEF LoanInv
<1>2. /\ proc' \in [Procs -> RequestType] /\ proc'[q] = record
      /\ \A r \in Procs \ {q} : proc'[r] = proc[r]
  BY <1>1
<1>3. TypeOK'
  BY <1>1, <1>2 DEF TypeOK, RequestType
<1>4. \A r \in Procs : AskedOf(r)'
  BY <1>2 DEF LoanInv, AskedOf
<1> QED BY <1>2, <1>3, <1>4, QuietSteps

LEMMA CallKeeps ==
    ASSUME LoanInv, NEW q \in Requests, NEW kind \in Kinds, NEW id \in Ids,
           NEW to \in Links, Call(q, kind, id, to)
    PROVE  LoanInv'
<1> DEFINE step == CASE kind \in {"create", "edit"} -> "read"
                     [] kind = "delete" -> "deleting"
                     [] OTHER -> "asks"
           seen == IF Exists(id) THEN rows[id] ELSE NoLoan
           record == [Idle EXCEPT !.pc = step, !.kind = kind, !.id = id, !.to = to,
                                  !.seen = seen]
<1>1. /\ proc' = [proc EXCEPT ![q] = record] /\ proc[q].pc = "new"
      /\ kind = "skip" => id \in Installments
      /\ kind \in {"create", "edit"} => id \in Manual
      /\ kind = "create" => ~Exists(id)
      /\ UNCHANGED <<today, closed, skipped, rows, paid, lock, relinked>>
  BY DEF Call
<1>2. /\ step \in {"read", "deleting", "asks"}
      /\ step = "read" => kind \in {"create", "edit"}
  OBVIOUS
<1>3. seen \in Links
  BY TypeFacts DEF LoanInv, Exists, Links
<1> HIDE DEF step, seen
<1>4. /\ record \in RequestType /\ record.pc = step /\ record.kind = kind
      /\ record.id = id /\ record.seen = seen
  BY <1>2, <1>3, IdleType DEF RequestType, Steps
<1>5. kind = "create" => seen = NoLoan
  BY <1>1 DEF seen
<1> HIDE DEF record
<1> QED BY <1>1, <1>2, <1>4, <1>5, BeginningKeeps DEF Procs

LEMMA JobKeeps == ASSUME LoanInv, JobStarts PROVE LoanInv'
<1> DEFINE record == [Idle EXCEPT !.pc = "asks"]
<1>1. record \in RequestType /\ record.pc = "asks" /\ record.kind = "book"
  BY IdleType DEF RequestType, Steps
<1>2. Job \in Procs /\ proc' = [proc EXCEPT ![Job] = record] /\ proc[Job].pc = "new"
      /\ UNCHANGED <<today, closed, skipped, rows, paid, lock, relinked>>
  BY DEF JobStarts, Procs
<1> HIDE DEF record
<1> QED BY <1>1, <1>2, BeginningKeeps

-----------------------------------------------------------------------------
LEMMA InitHolds == ASSUME Init PROVE LoanInv
<1>1. PICK links \in [Manual -> {NoRow, NoLoan, 1}] :
         /\ \A x, y \in Manual : links[x] = 1 /\ links[y] = 1 => x = y
         /\ rows = [id \in Ids |-> IF id \in Manual THEN links[id] ELSE NoRow]
  BY DEF Init
<1>2. rows \in [Ids -> Links \cup {NoRow}]
  BY <1>1 DEF Links, Installments
<1>3. /\ proc \in [Procs -> RequestType]
      /\ \A q \in Procs : proc[q].pc = "new" /\ proc[q].kind = "book"
  BY IdleType DEF Init
<1>4. \A q \in Procs : lock = q <=> proc[q].pc = "locked"
  <2>1. NoOne \notin Procs
    BY LoansAssumption DEF Procs
  <2>2. lock = NoOne
    BY DEF Init
  <2> QED BY <1>3, <2>1, <2>2
<1>5. TypeOK
  <2>1. /\ today = 0 /\ closed = FALSE /\ skipped = {}
        /\ paid = 0 /\ relinked = {}
    BY DEF Init
  <2>2. today \in 0 .. N /\ paid \in Int
    BY <2>1, LoansAssumption
  <2>3. lock \in Procs \cup {NoOne}
    BY DEF Init
  <2> QED BY <1>2, <1>3, <1>4, <2>1, <2>2, <2>3 DEF TypeOK, RequestType
<1>6. rows[Payoff] = NoRow
  BY <1>1 DEF Ids
<1>7. SettledOnce
  <2> SUFFICES ASSUME NEW n \in Installments
               PROVE  \A x, y \in Ids : Covers(x, n) /\ Covers(y, n) => x = y
    BY DEF SettledOnce, Init
  <2>1. \A x \in Ids : Covers(x, n) => x \in Manual /\ links[x] = 1
    BY <1>1 DEF Covers, NoRow, NoLoan, Installments
  <2> QED BY <1>1, <2>1
<1>8. ClosedWhilePaidOff
  BY <1>6 DEF Init, ClosedWhilePaidOff, Exists
<1> QED BY <1>3, <1>5, <1>6, <1>7, <1>8 DEF LoanInv, AskedOf, HoldsUnderLock

(* Every step keeps the invariant, and none books underneath a payoff.     *)
LEMMA NextHolds ==
    ASSUME LoanInv, [Next]_vars
    PROVE  LoanInv' /\ (closed => \A n \in Installments : Exists(n)' => Exists(n))
<1> DEFINE Unbooked == closed => \A n \in Installments : Exists(n)' => Exists(n)
<1>1. CASE UNCHANGED vars
  <2>1. UNCHANGED <<today, closed, skipped, rows, paid, lock, proc, relinked>>
    BY <1>1 DEF vars
  <2>2. TypeOK' /\ \A q \in Procs : AskedOf(q)'
    BY <2>1 DEF LoanInv, TypeOK, AskedOf
  <2> QED BY <2>1, <2>2, QuietSteps DEF Exists
<1>2. CASE NewDay
  <2>1. TypeOK' /\ \A q \in Procs : AskedOf(q)'
    BY <1>2 DEF NewDay, LoanInv, TypeOK, AskedOf
  <2> QED BY <1>2, <2>1, QuietSteps DEF NewDay, Exists
<1>3. CASE JobStarts
  BY <1>3, JobKeeps DEF JobStarts, Exists
<1>4. ASSUME NEW q \in Requests, NEW kind \in Kinds, NEW id \in Ids, NEW to \in Links,
             Call(q, kind, id, to)
      PROVE  LoanInv' /\ Unbooked
  BY <1>4, CallKeeps DEF Call, Exists
<1>5. ASSUME NEW q \in Procs, GoesOn(q)
      PROVE  LoanInv' /\ Unbooked
  <2>1. CASE Locks(q)
    BY <2>1, LocksKeeps DEF Locks, Exists
  <2>2. CASE Books(q)
    BY <2>2, BooksKeeps DEF Exists
  <2>3. CASE Skips(q)
    <3>1. Removed({id \in Ids : Covers(id, proc[q].id)}) /\ TypeOK
      BY <2>3 DEF Skips, LoanInv
    <3> QED BY <2>3, <3>1, SkipsKeeps, RemovedFacts DEF Exists, Ids
  <2>4. CASE Unskips(q)
    BY <2>4, UnskipsKeeps DEF Unskips, Exists
  <2>5. CASE PaysOff(q)
    BY <2>5, PaysOffKeeps
  <2>6. CASE Reopens(q)
    <3>1. Removed({Payoff}) /\ TypeOK
      BY <2>6 DEF Reopens, LoanInv
    <3> QED BY <2>6, <3>1, ReopensKeeps, RemovedFacts DEF Exists, Ids
  <2>7. CASE LinksUnderLock(q)
    BY <2>7, LinksKeeps
  <2>8. CASE EditsOnly(q)
    BY <2>8, EditsKeeps
  <2>9. CASE Deletes(q)
    BY <2>9, DeletesKeeps
  <2>10. CASE \E r \in Requests : Deadlock(q, r)
    BY <2>10, DeadlockKeeps DEF Deadlock, Exists
  <2> QED BY <1>5, <2>1, <2>2, <2>3, <2>4, <2>5, <2>6, <2>7, <2>8, <2>9, <2>10 DEF GoesOn
<1> QED BY <1>1, <1>2, <1>3, <1>4, <1>5 DEF Next

-----------------------------------------------------------------------------
(* What a request read under the lock still holds when it writes, whatever *)
(* the other requests, the job and the edits do (loan-actions.ts:42-55).   *)
THEOREM LoanInvariant == Spec => []LoanInv
<1>1. Init => LoanInv
  BY InitHolds
<1>2. LoanInv /\ [Next]_vars => LoanInv'
  BY NextHolds
<1> QED BY <1>1, <1>2, PTL DEF Spec

(* Whichever of the job, the edits, the skips, the payoff and the deletes  *)
(* race, an installment is settled by one repayment or by being skipped    *)
(* (loan-actions.ts:57-62, 244-248).                                       *)
THEOREM InstallmentsAreSettledOnce == Spec => []SettledOnce
<1>1. LoanInv => SettledOnce
  BY DEF LoanInv
<1> QED BY <1>1, LoanInvariant, PTL

(* The loan is closed exactly as long as its payoff stands                 *)
(* (loan-actions.ts:168-170).                                              *)
THEOREM PayoffClosesTheLoan == Spec => []ClosedWhilePaidOff
<1>1. LoanInv => ClosedWhilePaidOff
  BY DEF LoanInv
<1> QED BY <1>1, LoanInvariant, PTL

(* No step books an installment of a loan that is paid off                 *)
(* (loan-installments.ts:73-75).                                           *)
THEOREM PaidOffStaysUnbooked == Spec => NothingBookedAfterPayoff
<1>1. LoanInv /\ [Next]_vars =>
         [closed => \A n \in Installments : Exists(n)' => Exists(n)]_vars
  BY NextHolds
<1> QED BY <1>1, LoanInvariant, PTL DEF Spec, NothingBookedAfterPayoff

-----------------------------------------------------------------------------
(* What is repaid.  Beside the payoff, a repayment covers an installment   *)
(* or is extra, and what the job books keeps its installment.              *)
Covering == {id \in Ids \ {Payoff} : rows[id] \in Installments}
Besides  == {id \in Manual : rows[id] = Extra}

OwnRows == \A n \in Installments : rows[n] \in {NoRow, n}

(* A link that is validated under the lock is written to an open loan.     *)
OpenUnderLock ==
    \A q \in Procs :
        proc[q].pc = "locked" /\ proc[q].kind \in {"create", "edit"} => ~closed

(* The payoff, and the one about to be written, leave nothing owed beyond  *)
(* the installments that are covered.                                      *)
PaysTheRest ==
    relinked = {} =>
        /\ Exists(Payoff) => paid + Cardinality(Covering) <= N
        /\ \A q \in Procs :
              proc[q].pc = "locked" /\ proc[q].kind = "payoff" =>
                  proc[q].owed + Cardinality(Covering) <= N

PayoffInv == OwnRows /\ OpenUnderLock /\ PaysTheRest

LEMMA IdsFinite == IsFiniteSet(Ids) /\ Cardinality(Installments) = N /\ IsFiniteSet(Installments)
<1>1. IsFiniteSet(Installments) /\ Cardinality(Installments) = N
  BY FS_Interval DEF Installments
<1>2. IsFiniteSet(Installments \cup {Payoff})
  BY <1>1, FS_AddElement
<1> QED BY <1>1, <1>2, FS_Union DEF Ids

LEMMA CoveringCount ==
    /\ IsFiniteSet(Covering) /\ Cardinality(Covering) \in Nat
    /\ IsFiniteSet(Besides) /\ Cardinality(Besides) \in Nat
BY IdsFinite, FS_Subset, FS_CardinalityType DEF Covering, Besides

LEMMA CoveringLess ==
    ASSUME Covering' \subseteq Covering
    PROVE  Cardinality(Covering') <= Cardinality(Covering) /\ Cardinality(Covering') \in Nat
<1>1. Covering' \in SUBSET Covering
  OBVIOUS
<1> QED BY <1>1, CoveringCount, FS_Subset, FS_CardinalityType

(* An installment is covered once, so no more are covered than there are.  *)
LEMMA CoveringBound ==
    ASSUME TypeOK, SettledOnce, relinked = {}
    PROVE  Cardinality(Covering) <= N
<1> DEFINE f == [id \in Covering |-> rows[id]]
<1>1. f \in [Covering -> Installments]
  BY DEF Covering
<1>2. \A x, y \in Covering : f[x] = f[y] => x = y
  BY DEF Covering, SettledOnce, Covers
<1>3. f \in Injection(Covering, Installments)
  BY <1>1, <1>2 DEF Injection, IsInjective
<1> QED BY <1>3, IdsFinite, FS_Injection

(* The principal repaid beside the payoff.                                 *)
LEMMA LegsCount ==
    ASSUME TypeOK, OwnRows
    PROVE  /\ Cardinality(Legs \ {Payoff}) \in Nat
           /\ Cardinality(Legs \ {Payoff}) = Cardinality(Covering) + Cardinality(Besides)
<1>1. Legs \ {Payoff} = Covering \cup Besides /\ Covering \cap Besides = {}
  <2>1. \A id \in Ids : rows[id] \in Installments \cup {NoLoan, Extra, NoRow}
    BY DEF TypeOK, Links
  <2>2. Extra \notin Installments /\ NoLoan \notin Installments /\ NoRow \notin Installments
        /\ Extra # NoLoan /\ Extra # NoRow
    BY DEF Installments, Extra, NoLoan, NoRow
  <2>3. \A id \in Ids \ {Payoff} : id \in Manual \/ id \in Installments
    BY DEF Ids
  <2>4. Manual \subseteq Ids \ {Payoff}
    BY DEF Ids
  <2>5. \A id \in Installments : rows[id] # Extra
    BY <2>2 DEF OwnRows
  <2> QED BY <2>1, <2>2, <2>3, <2>4, <2>5 DEF Legs, Covering, Besides
<1>2. Cardinality(Covering \cup Besides) = Cardinality(Covering) + Cardinality(Besides)
                                         - Cardinality(Covering \cap Besides)
  BY CoveringCount, FS_Union
<1>3. Cardinality(Covering \cap Besides) = 0
  BY <1>1, FS_EmptySet
<1>4. Cardinality(Legs \ {Payoff}) = Cardinality(Covering \cup Besides)
  BY <1>1
<1> HIDE DEF Covering, Besides, Legs
<1> QED BY <1>2, <1>3, <1>4, CoveringCount

(* Steps after which fewer installments are covered.                       *)
LEMMA Uncovering ==
    ASSUME PaysTheRest, TypeOK, relinked \subseteq relinked', paid' = paid,
           relinked' = {} => Covering' \subseteq Covering,
           Exists(Payoff)' => Exists(Payoff),
           \A r \in Procs : proc'[r].pc = "locked" /\ proc'[r].kind = "payoff"
                               => proc'[r] = proc[r]
    PROVE  PaysTheRest'
<1> SUFFICES ASSUME relinked' = {}
             PROVE  /\ Exists(Payoff)' => paid + Cardinality(Covering') <= N
                    /\ \A q \in Procs :
                          proc'[q].pc = "locked" /\ proc'[q].kind = "payoff" =>
                              proc'[q].owed + Cardinality(Covering') <= N
  BY DEF PaysTheRest
<1>1. relinked = {} /\ N \in Int /\ paid \in Int
  BY DEF TypeOK
<1>2. /\ Cardinality(Covering') <= Cardinality(Covering) /\ Cardinality(Covering') \in Nat
      /\ Cardinality(Covering) \in Nat
  BY CoveringLess, CoveringCount
<1>3. \A q \in Procs : proc[q].owed \in Int
  BY TypeFacts DEF RequestType
<1> QED BY <1>1, <1>2, <1>3 DEF PaysTheRest

(* The invariants after a step of a request that has the lock: nobody has  *)
(* it any more.                                                            *)
LEMMA CommitsOpen ==
    ASSUME LoanInv', NEW q \in Procs, Commits(q)
    PROVE  /\ OpenUnderLock'
           /\ \A r \in Procs : proc'[r].pc # "locked"
<1>1. \A r \in Procs : proc'[r].pc # "locked"
  BY DEF LoanInv, TypeOK, Commits, Procs
<1> QED BY <1>1 DEF OpenUnderLock

LEMMA BooksPays ==
    ASSUME LoanInv, LoanInv', PayoffInv, NEW q \in Procs, Books(q)
    PROVE  PayoffInv'
<1>1. Commits(q) /\ proc[q].pc = "locked" /\ proc[q].kind = "book" /\ ~closed
      /\ UNCHANGED closed
  BY DEF Books, Commits, LoanInv, HoldsUnderLock
<1>2. \A r \in Procs : proc'[r].pc # "locked"
  BY <1>1, CommitsOpen
<1>3. ~Exists(Payoff)'
  BY <1>1 DEF LoanInv, ClosedWhilePaidOff
<1>4. OwnRows'
  BY DEF Books, PayoffInv, OwnRows, Ids
<1> QED BY <1>1, <1>2, <1>3, <1>4, CommitsOpen DEF PayoffInv, PaysTheRest

LEMMA RemovedPays ==
    ASSUME LoanInv, PayoffInv, NEW ids, Removed(ids)
    PROVE  OwnRows' /\ Covering' \subseteq Covering /\ (Exists(Payoff)' => Exists(Payoff))
<1>1. \A id \in Ids : rows'[id] = IF id \in ids THEN NoRow ELSE rows[id]
  BY DEF Removed
<1>2. Payoff \in Ids /\ Installments \subseteq Ids /\ NoRow \notin Installments
  BY DEF Ids, Installments, NoRow
<1> QED BY <1>1, <1>2 DEF PayoffInv, OwnRows, Covering, Exists

LEMMA CommittedPays ==
    ASSUME LoanInv, LoanInv', PayoffInv, NEW q \in Procs,
           Skips(q) \/ Unskips(q) \/ Reopens(q)
    PROVE  PayoffInv'
<1>1. Commits(q) /\ UNCHANGED <<paid, relinked>> /\ (UNCHANGED rows \/ \E ids : Removed(ids))
  BY DEF Skips, Unskips, Reopens
<1>2. OwnRows' /\ Covering' \subseteq Covering /\ (Exists(Payoff)' => Exists(Payoff))
  <2>1. CASE UNCHANGED rows
    BY <2>1 DEF PayoffInv, OwnRows, Covering, Exists
  <2> QED BY <1>1, <2>1, RemovedPays
<1>3. PaysTheRest'
  BY <1>1, <1>2, CommitsOpen, Uncovering DEF PayoffInv, LoanInv
<1> QED BY <1>1, <1>2, <1>3, CommitsOpen DEF PayoffInv

LEMMA PaysOffPays ==
    ASSUME LoanInv, LoanInv', PayoffInv, NEW q \in Procs, PaysOff(q)
    PROVE  PayoffInv'
<1>1. /\ Commits(q) /\ proc[q].pc = "locked" /\ proc[q].kind = "payoff"
      /\ rows' = [rows EXCEPT ![Payoff] = Extra] /\ paid' = proc[q].owed
      /\ UNCHANGED relinked
  BY DEF PaysOff, Commits
<1>2. /\ rows \in [Ids -> Links \cup {NoRow}] /\ Payoff \in Ids
      /\ Installments \subseteq Ids \ {Payoff}
  BY TypeFacts DEF LoanInv, Ids, Installments
<1>3. OwnRows' /\ Covering' = Covering
  BY <1>1, <1>2 DEF PayoffInv, OwnRows, Covering
<1>4. PaysTheRest'
  BY <1>1, <1>3, CommitsOpen DEF PayoffInv, PaysTheRest
<1> QED BY <1>1, <1>3, <1>4, CommitsOpen DEF PayoffInv

LEMMA LinksPays ==
    ASSUME LoanInv, LoanInv', PayoffInv, NEW q \in Procs, LinksUnderLock(q)
    PROVE  PayoffInv'
<1>1. /\ Commits(q) /\ proc[q].pc = "locked" /\ proc[q].kind \in {"create", "edit"}
      /\ UNCHANGED closed /\ proc[q].id \in Manual
      /\ rows' = [rows EXCEPT ![proc[q].id] = proc[q].to] \/ rows' = rows
  BY DEF LinksUnderLock, WritesLink, Commits, LoanInv, AskedOf
<1>2. ~closed'
  BY <1>1 DEF PayoffInv, OpenUnderLock
<1>3. ~Exists(Payoff)'
  BY <1>2 DEF LoanInv, ClosedWhilePaidOff
<1>4. OwnRows'
  <2>1. \A n \in Installments : n \in Ids /\ n # proc[q].id
    BY <1>1 DEF Ids, Installments
  <2> QED BY <1>1, <2>1, TypeFacts DEF PayoffInv, OwnRows, LoanInv
<1> QED BY <1>1, <1>3, <1>4, CommitsOpen DEF PayoffInv, PaysTheRest

(* An edit that takes no lock writes the link it read: where that changes  *)
(* a row, the installment it covers is named in relinked.                  *)
LEMMA EditsPays ==
    ASSUME LoanInv, LoanInv', PayoffInv, NEW q \in Procs, EditsOnly(q)
    PROVE  PayoffInv'
<1> DEFINE id == proc[q].id
           to == proc[q].to
<1>1. /\ proc[q].pc = "read" /\ proc[q].kind \in {"create", "edit"} /\ id \in Manual
      /\ to = proc[q].seen \/ to = NoLoan
      /\ UNCHANGED <<closed, paid, lock>> /\ Ends(q)
      /\ rows' = [rows EXCEPT ![id] = to] \/ rows' = rows
      /\ proc[q].kind = "create" \/ Exists(id) \/ rows' = rows
      /\ proc[q].kind = "create" => to = NoLoan
  BY DEF EditsOnly, WritesLink, NeedsLoan, LoanInv, AskedOf
<1>2. rows \in [Ids -> Links \cup {NoRow}] /\ id \in Ids /\ Payoff \in Ids /\ id # Payoff
      /\ Installments \subseteq Ids /\ id \notin Installments /\ NoLoan \notin Installments
  BY <1>1, TypeFacts DEF LoanInv, Ids, NoLoan, Installments
<1>3. relinked \subseteq relinked'
      /\ (Exists(id) /\ rows[id] # proc[q].seen /\ to \in Installments => to \in relinked')
  BY DEF EditsOnly
<1>4. OwnRows'
  BY <1>1, <1>2 DEF PayoffInv, OwnRows
<1>5. Exists(Payoff)' => Exists(Payoff)
  BY <1>1, <1>2 DEF Exists
<1>6. relinked' = {} => Covering' \subseteq Covering
  <2> SUFFICES ASSUME relinked' = {}, NEW x \in Covering' PROVE x \in Covering
    OBVIOUS
  <2>1. CASE x # id \/ rows' = rows
    BY <1>1, <1>2, <2>1 DEF Covering
  <2>2. CASE x = id /\ rows' = [rows EXCEPT ![id] = to] /\ rows' # rows
    <3>1. to \in Installments
      BY <1>2, <2>2 DEF Covering
    <3>2. Exists(id) /\ to = proc[q].seen
      BY <1>1, <1>2, <2>2, <3>1
    <3>3. rows[id] = to
      BY <1>3, <3>1, <3>2
    <3> QED BY <1>2, <2>2, <3>1, <3>3 DEF Covering
  <2> QED BY <1>1, <2>1, <2>2
<1>7. \A r \in Procs : proc'[r].pc = "locked" => proc'[r] = proc[r]
  BY <1>1, Ending DEF LoanInv
<1>8. PaysTheRest'
  BY <1>1, <1>3, <1>5, <1>6, <1>7, Uncovering DEF PayoffInv, LoanInv
<1>9. OpenUnderLock'
  BY <1>1, <1>7 DEF PayoffInv, OpenUnderLock
<1> QED BY <1>4, <1>8, <1>9 DEF PayoffInv

LEMMA DeletesPays ==
    ASSUME LoanInv, LoanInv', PayoffInv, NEW q \in Procs, Deletes(q)
    PROVE  PayoffInv'
<1>1. /\ proc[q].pc = "deleting" /\ UNCHANGED <<paid, lock, relinked>> /\ Ends(q)
      /\ Removed({proc[q].id}) /\ (closed' => closed)
  BY DEF Deletes, ClosedAfter
<1>2. \A r \in Procs : proc'[r].pc = "locked" => proc'[r] = proc[r]
  BY <1>1, Ending DEF LoanInv
<1>3. OwnRows' /\ Covering' \subseteq Covering /\ (Exists(Payoff)' => Exists(Payoff))
  BY <1>1, RemovedPays
<1>4. PaysTheRest'
  BY <1>1, <1>2, <1>3, Uncovering DEF PayoffInv, LoanInv
<1>5. OpenUnderLock'
  BY <1>1, <1>2 DEF PayoffInv, OpenUnderLock
<1> QED BY <1>3, <1>4, <1>5 DEF PayoffInv

(* Steps of requests that write nothing and get no lock.                   *)
LEMMA QuietPays ==
    ASSUME LoanInv, PayoffInv, UNCHANGED <<closed, rows, paid, relinked>>,
           \A r \in Procs : proc'[r].pc = "locked" => proc'[r] = proc[r]
    PROVE  PayoffInv'
<1>1. OwnRows' /\ Covering' = Covering /\ (Exists(Payoff)' => Exists(Payoff))
  BY DEF PayoffInv, OwnRows, Covering, Exists
<1>2. PaysTheRest'
  BY <1>1, Uncovering DEF PayoffInv, LoanInv
<1>3. OpenUnderLock'
  BY DEF PayoffInv, OpenUnderLock
<1> QED BY <1>1, <1>2, <1>3 DEF PayoffInv

(* What a payoff finds owed under the lock is what is not covered: an open *)
(* loan has no payoff yet.                                                 *)
LEMMA LocksPays ==
    ASSUME LoanInv, LoanInv', PayoffInv, NEW q \in Procs, Locks(q)
    PROVE  PayoffInv'
<1>1. /\ NeedsLoan(q) /\ proc[q].pc # "locked" /\ proc \in [Procs -> RequestType]
      /\ UNCHANGED <<closed, rows, paid, relinked>>
  BY TypeFacts DEF LoanInv, Locks, NeedsLoan
<1>2. CASE Refused(q)
  <2>1. \A r \in Procs : proc'[r].pc = "locked" => proc'[r] = proc[r]
    BY <1>1, <1>2, Ending DEF Locks, LoanInv
  <2> QED BY <1>1, <2>1, QuietPays
<1>3. CASE ~Refused(q)
  <2>1. /\ proc'[q].kind = proc[q].kind /\ proc'[q].owed = Outstanding
        /\ \A r \in Procs \ {q} : proc'[r] = proc[r]
    BY <1>1, <1>3 DEF Locks, RequestType
  <2>2. OpenUnderLock'
    BY <1>1, <1>3, <2>1 DEF PayoffInv, OpenUnderLock, Refused
  <2>3. OwnRows' /\ Covering' = Covering /\ Exists(Payoff)' = Exists(Payoff)
    BY <1>1 DEF PayoffInv, OwnRows, Covering, Exists
  <2>4. proc[q].kind = "payoff" => Outstanding + Cardinality(Covering) <= N
    <3>1. SUFFICES ASSUME proc[q].kind = "payoff"
                   PROVE  Outstanding + Cardinality(Covering) <= N
      OBVIOUS
    <3>2. Payoff \notin Legs
      BY <1>3, <3>1 DEF Refused, LoanInv, ClosedWhilePaidOff, Exists, Legs
    <3>3. Outstanding = N - (Cardinality(Covering) + Cardinality(Besides))
      BY <3>2, LegsCount DEF Outstanding, Repaid, LoanInv, PayoffInv
    <3> QED BY <3>3, CoveringCount
  <2>5. PaysTheRest'
    <3> HIDE DEF Covering
    <3> QED BY <1>1, <2>1, <2>3, <2>4 DEF PayoffInv, PaysTheRest
  <2> QED BY <2>2, <2>3, <2>5 DEF PayoffInv
<1> QED BY <1>2, <1>3

LEMMA DeadlockPays ==
    ASSUME LoanInv, LoanInv', PayoffInv, NEW q \in Procs, NEW r \in Requests, Deadlock(q, r)
    PROVE  PayoffInv'
<1>1. /\ UNCHANGED <<closed, rows, paid, relinked>> /\ r \in Procs
      /\ proc[q].pc = "locked" /\ proc[r].pc = "deleting"
  BY DEF Deadlock, WaitsForRow, Procs
<1>2. \A x \in Procs : proc'[x].pc = "locked" => proc'[x] = proc[x]
  <2>1. CASE Ends(q) /\ lock' = NoOne
    <3>1. Commits(q)
      BY <1>1, <2>1 DEF Commits
    <3> QED BY <3>1, CommitsOpen
  <2>2. CASE Ends(r) /\ UNCHANGED lock
    BY <1>1, <2>2, Ending DEF LoanInv
  <2> QED BY <2>1, <2>2 DEF Deadlock
<1> QED BY <1>1, <1>2, QuietPays

LEMMA BeginningPays ==
    ASSUME LoanInv, PayoffInv,
           \/ UNCHANGED vars \/ NewDay \/ JobStarts
           \/ \E q \in Requests, kind \in Kinds, id \in Ids, to \in Links :
                 Call(q, kind, id, to)
    PROVE  PayoffInv'
<1>1. UNCHANGED <<closed, rows, paid, relinked>> /\ proc \in [Procs -> RequestType]
  BY TypeFacts DEF vars, NewDay, JobStarts, Call, LoanInv
<1>2. \A r \in Procs : proc'[r].pc = "locked" => proc'[r] = proc[r]
  <2>1. CASE UNCHANGED vars \/ NewDay
    BY <2>1 DEF vars, NewDay
  <2>2. CASE JobStarts
    BY <1>1, <2>2, IdleType DEF JobStarts, RequestType
  <2>3. ASSUME NEW q \in Requests, NEW kind \in Kinds, NEW id \in Ids, NEW to \in Links,
               Call(q, kind, id, to)
        PROVE  \A r \in Procs : proc'[r].pc = "locked" => proc'[r] = proc[r]
    <3> DEFINE step == CASE kind \in {"create", "edit"} -> "read"
                         [] kind = "delete" -> "deleting"
                         [] OTHER -> "asks"
               seen == IF Exists(id) THEN rows[id] ELSE NoLoan
               record == [Idle EXCEPT !.pc = step, !.kind = kind, !.id = id, !.to = to,
                                      !.seen = seen]
    <3>1. proc' = [proc EXCEPT ![q] = record]
      BY <2>3 DEF Call
    <3>2. record.pc # "locked"
      BY IdleType DEF RequestType
    <3> HIDE DEF record
    <3> QED BY <1>1, <3>1, <3>2
  <2> QED BY <2>1, <2>2, <2>3
<1> QED BY <1>1, <1>2, QuietPays

LEMMA InitPays == ASSUME Init PROVE PayoffInv
<1>1. \A q \in Procs : proc[q].pc = "new"
  BY IdleType DEF Init
<1>2. \A id \in Ids \ Manual : rows[id] = NoRow
  BY DEF Init
<1>3. Payoff \in Ids \ Manual /\ Installments \subseteq Ids \ Manual
  BY DEF Ids, Installments
<1>4. OwnRows /\ ~Exists(Payoff)
  BY <1>2, <1>3 DEF OwnRows, Exists
<1> QED BY <1>1, <1>4 DEF PayoffInv, OpenUnderLock, PaysTheRest

LEMMA NextPays == ASSUME LoanInv, PayoffInv, [Next]_vars PROVE PayoffInv'
<1>1. LoanInv'
  BY NextHolds
<1>2. ASSUME NEW q \in Procs, GoesOn(q) PROVE PayoffInv'
  BY <1>1, <1>2, LocksPays, BooksPays, CommittedPays, PaysOffPays, LinksPays, EditsPays,
     DeletesPays, DeadlockPays DEF GoesOn
<1> QED BY <1>2, BeginningPays DEF Next

(* The two cases of what is repaid: an open loan, whose installments are   *)
(* covered once, and one that a payoff has closed.                         *)
LEMMA RepaidBound ==
    ASSUME LoanInv, PayoffInv, relinked = {}
    PROVE  Repaid <= N + Cardinality(Besides)
<1>1. /\ Cardinality(Legs \ {Payoff}) = Cardinality(Covering) + Cardinality(Besides)
      /\ Cardinality(Covering) \in Nat /\ Cardinality(Besides) \in Nat
      /\ Cardinality(Covering) <= N
  BY LegsCount, CoveringCount, CoveringBound DEF LoanInv, PayoffInv
<1>2. paid \in Int
  BY DEF LoanInv, TypeOK
<1>3. Payoff \in Legs => paid + Cardinality(Covering) <= N
  BY DEF PayoffInv, PaysTheRest, Legs, Exists
<1> HIDE DEF Covering, Besides, Legs
<1> QED BY <1>1, <1>2, <1>3 DEF Repaid

(* The loan is closed exactly as long as its payoff stands, and, while no  *)
(* edit wrote back a stale link, no more than the principal is repaid but  *)
(* for what the user pays besides: the payoff pays the rest, whichever job *)
(* or request runs between its reading what is owed and its writing        *)
(* (loan-actions.ts:168-170).                                              *)
THEOREM PayoffPaysTheRest == Spec => []PaidOffOnce
<1>1. Init => LoanInv /\ PayoffInv
  BY InitHolds, InitPays
<1>2. LoanInv /\ PayoffInv /\ [Next]_vars => LoanInv' /\ PayoffInv'
  BY NextHolds, NextPays
<1>3. LoanInv /\ PayoffInv => PaidOffOnce
  BY RepaidBound DEF PaidOffOnce, LoanInv, Besides
<1> QED BY <1>1, <1>2, <1>3, PTL DEF Spec

-----------------------------------------------------------------------------
(* In the instance that TLC checks, where one of the three protocols runs  *)
(* and the others rest, each keeps its type (MCServices).                  *)
THEOREM ServicesTypeCorrect == ServicesSpec => []ServicesTypeOK
<1>1. ServicesInit => ChainInv /\ LoanInv /\ PairingInv
  BY InvInit, InitHolds, PairingInitHolds DEF ServicesInit
<1>2. /\ [ServicesNext]_servicesVars => [ChainNext]_chainVars
      /\ [ServicesNext]_servicesVars => [Next]_vars
      /\ [ServicesNext]_servicesVars => [PairingNext]_pairingVars
  BY DEF ServicesNext, servicesVars
<1>3. ChainInv /\ LoanInv /\ PairingInv /\ [ServicesNext]_servicesVars =>
         ChainInv' /\ LoanInv' /\ PairingInv'
  BY <1>2, StepKeeps, NextHolds, PairingNextHolds
<1>4. ChainInv /\ LoanInv /\ PairingInv => ServicesTypeOK
  BY DEF ChainInv, LoanInv, PairingInv, ServicesTypeOK
<1> QED BY <1>1, <1>3, <1>4, PTL DEF ServicesSpec
=============================================================================
