----------------------------- MODULE MpscProofs -----------------------------
(***************************************************************************)
(* IInv of Mpsc is inductive, for any set of producers, jobs and heap      *)
(* addresses, and gives the memory safety of include/mpsc.h.               *)
(***************************************************************************)
EXTENDS Mpsc, TLAPS

\* What Tail does to the chain, in the terms of the invariant's indices.
LEMMA TailOf ==
    ASSUME NEW S, NEW s \in Seq(S), s # << >>
    PROVE  /\ Tail(s) \in Seq(S)
           /\ Len(s) \in Nat \ {0}
           /\ Len(Tail(s)) = Len(s) - 1
           /\ \A i \in 1 .. Len(s) - 1 : Tail(s)[i] = s[i + 1]
           /\ DOMAIN s = 1 .. Len(s)
           /\ DOMAIN Tail(s) = 1 .. Len(s) - 1
  OBVIOUS

\* What Append does to it.
LEMMA AppendTo ==
    ASSUME NEW S, NEW s \in Seq(S), NEW e \in S
    PROVE  /\ Append(s, e) \in Seq(S)
           /\ Len(s) \in Nat
           /\ Len(Append(s, e)) = Len(s) + 1
           /\ \A i \in 1 .. Len(s) : Append(s, e)[i] = s[i]
           /\ Append(s, e)[Len(s) + 1] = e
           /\ DOMAIN s = 1 .. Len(s)
           /\ DOMAIN Append(s, e) = 1 .. Len(s) + 1
  OBVIOUS

LEMMA Lengths ==
    ASSUME NEW S, NEW s \in Seq(S)
    PROVE  /\ Len(s) \in Nat
           /\ DOMAIN s = 1 .. Len(s)
           /\ s # << >> <=> Len(s) > 0
           /\ \A i \in 1 .. Len(s) : s[i] \in S
  OBVIOUS

\* Until ~mpsc is done, first is the head of the chain and allocated.
LEMMA FirstAllocated ==
    ASSUME IInv
    PROVE  /\ first # NULL => InChain(first) /\ first \in allocated
           /\ cpc \notin Closing => first \in allocated
  <1> USE DEF IInv
  <1>0. /\ Len(chain) \in Nat /\ DOMAIN chain = 1 .. Len(chain)
        /\ chain # << >> <=> Len(chain) > 0
    BY Lengths DEF TypeOK
  <1> QED
    BY <1>0 DEF ChainMends, Consumer, InChain, Distinct, TypeOK

\* The constructor builds a list that satisfies the invariant.
LEMMA InitIInv == Init => IInv
  <1> SUFFICES ASSUME Init PROVE IInv
    OBVIOUS
  <1> PICK n \in Node :
        /\ allocated = {n}
        /\ next = [m \in Node |-> NULL]
        /\ data = [m \in Node |-> NULL]
        /\ first = n /\ last = n
        /\ pc = [p \in Producer |-> "idle"]
        /\ proposal = [p \in Producer |-> NULL]
        /\ prev = [p \in Producer |-> NULL]
        /\ cpc = "idle"
        /\ to_delete = NULL
        /\ chain = <<n>>
    BY DEF Init
  <1>0. chain \in Seq(Node) /\ Len(chain) = 1 /\ DOMAIN chain = {1} /\ chain[1] = n
        /\ chain # << >>
    OBVIOUS
  <1>1. TypeOK
    BY <1>0, MpscAssumption DEF TypeOK, Closing
  <1>2. NoLeak
    BY <1>0 DEF NoLeak, InChain
  <1>3. ChainMends
    BY <1>0 DEF ChainMends
  <1>4. Distinct
    BY <1>0 DEF Distinct, InPut, InChain
  <1>5. Consumer
    BY <1>0, MpscAssumption DEF Consumer, Closing
  <1> QED
    BY <1>1, <1>2, <1>3, <1>4, <1>5 DEF IInv
-----------------------------------------------------------------------------
(***************************************************************************)
(* One lemma per action that moves a pointer.                              *)
(***************************************************************************)
LEMMA PutAllocIInv ==
    ASSUME IInv, NEW p \in Producer, NEW job \in Job, PutAlloc(p, job)
    PROVE  IInv'
  <1> USE DEF IInv
  <1>0. /\ pc[p] = "idle"
        /\ cpc \notin Closing
        /\ pc' = [pc EXCEPT ![p] = "swap"]
        /\ UNCHANGED <<first, last, prev, cpc, to_delete, chain>>
    BY DEF PutAlloc
  <1> PICK n \in Node \ allocated :
        /\ allocated' = allocated \cup {n}
        /\ data' = [data EXCEPT ![n] = job]
        /\ next' = [next EXCEPT ![n] = NULL]
        /\ proposal' = [proposal EXCEPT ![p] = n]
    BY DEF PutAlloc
  <1>c. /\ chain \in Seq(Node) /\ Len(chain) \in Nat /\ DOMAIN chain = 1 .. Len(chain)
        /\ \A i \in 1 .. Len(chain) : chain[i] \in allocated /\ chain[i] # n
        /\ chain # << >>
    BY <1>0, Lengths DEF TypeOK, Distinct, Consumer, Closing
  <1>1. TypeOK'
    BY <1>0 DEF TypeOK
  <1>2. NoLeak'
    BY <1>0, <1>c DEF NoLeak, InChain, TypeOK
  <1>3. ChainMends'
    <2>1. \A i \in 1 .. Len(chain) : next'[chain[i]] = next[chain[i]]
      BY <1>c DEF TypeOK
    <2>2. \A q \in Producer, i \in 1 .. Len(chain) - 1 : Filling(q, i) <=> Filling(q, i)'
      BY <1>0 DEF TypeOK, Filling
    <2> QED
      BY <1>0, <1>c, <2>1, <2>2 DEF ChainMends, TypeOK
  <1>4. Distinct'
    <2>1. \A q \in Producer : InPut(q) => proposal[q] \in allocated
      BY <1>c DEF InPut, TypeOK, Distinct, ChainMends, Filling
    <2> QED
      BY <1>0, <1>c, <2>1 DEF Distinct, TypeOK, InPut, InChain, ChainMends
  <1>5. Consumer'
    BY <1>0, <1>c DEF Consumer, TypeOK, InChain, InPut, ChainMends
  <1> QED
    BY <1>1, <1>2, <1>3, <1>4, <1>5

LEMMA PutSwapIInv ==
    ASSUME IInv, NEW p \in Producer, PutSwap(p)
    PROVE  IInv'
  <1> USE DEF IInv
  <1>0. /\ pc[p] = "swap"
        /\ prev' = [prev EXCEPT ![p] = last]
        /\ last' = proposal[p]
        /\ chain' = Append(chain, proposal[p])
        /\ pc' = [pc EXCEPT ![p] = "link"]
        /\ UNCHANGED <<allocated, next, data, first, proposal, cpc, to_delete>>
    BY DEF PutSwap
  <1>k. PICK n, k : n = proposal[p] /\ k = Len(chain)
    OBVIOUS
  <1>n. n \in Node /\ n \in allocated /\ next[n] = NULL /\ data[n] \in Job
        /\ cpc \notin Closing
    BY <1>k, <1>0 DEF TypeOK, Distinct, Consumer
  <1>c. /\ chain \in Seq(Node) /\ k \in Nat \ {0} /\ DOMAIN chain = 1 .. k
        /\ chain' \in Seq(Node) /\ Len(chain') = k + 1 /\ DOMAIN chain' = 1 .. k + 1
        /\ \A i \in 1 .. k : chain'[i] = chain[i]
        /\ chain'[k + 1] = n
        /\ chain # << >> /\ chain' # << >>
        /\ \A i \in 1 .. k : chain[i] # n
    BY <1>k, <1>0, <1>n, AppendTo, Lengths DEF TypeOK, Distinct, Consumer, Closing, InChain
  <1>1. TypeOK'
    BY <1>k, <1>0, <1>n, <1>c DEF TypeOK
  <1>2. NoLeak'
    <2>1. ASSUME NEW m \in Node, InChain(m) PROVE InChain(m)'
      BY <2>1, <1>c DEF InChain
    <2>2. InChain(n)'
      BY <1>c DEF InChain
    <2> QED
      BY <1>k, <1>0, <1>c, <2>1, <2>2 DEF NoLeak, TypeOK, Closing
  <1>3. ChainMends'
    <2>1. Filling(p, k)'
      BY <1>k, <1>0, <1>c DEF Filling, TypeOK, ChainMends
    <2>2. \A q \in Producer : \A i \in 1 .. k - 1 : Filling(q, i) => Filling(q, i)'
      BY <1>k, <1>0, <1>c DEF Filling, TypeOK
    <2>3. next'[chain'[k]] = NULL
      BY <1>k, <1>0, <1>c DEF ChainMends, Distinct
    <2>4. (chain # << >> => chain[1] = first /\ chain[Len(chain)] = last)'
      BY <1>k, <1>0, <1>c DEF ChainMends
    <2>5. (\A i \in 1 .. Len(chain) - 1 :
             \/ next[chain[i]] = chain[i + 1]
             \/ next[chain[i]] = NULL /\ \E q \in Producer : Filling(q, i))'
      <3> SUFFICES ASSUME NEW i \in 1 .. k
                   PROVE  \/ next'[chain'[i]] = chain'[i + 1]
                          \/ next'[chain'[i]] = NULL /\ \E q \in Producer : Filling(q, i)'
        BY <1>c
      <3>1. CASE i = k
        BY <3>1, <2>1, <2>3
      <3>2. CASE i # k
        BY <3>2, <1>0, <1>c, <2>2 DEF ChainMends
      <3> QED
        BY <3>1, <3>2
    <2>6. (\A q \in Producer :
             pc[q] = "link" => \E i \in 1 .. Len(chain) - 1 :
                                 Filling(q, i) /\ next[chain[i]] = NULL)'
      <3> SUFFICES ASSUME NEW q \in Producer, pc'[q] = "link"
                   PROVE  \E i \in 1 .. k : Filling(q, i)' /\ next'[chain'[i]] = NULL
        BY <1>c
      <3>1. CASE q = p
        BY <3>1, <2>1, <2>3, <1>c DEF Filling
      <3>2. CASE q # p
        <4>1. pc[q] = "link"
          BY <3>2, <1>0 DEF TypeOK
        <4> QED
          BY <4>1, <2>2, <1>0, <1>c DEF ChainMends
      <3> QED
        BY <3>1, <3>2
    <2> QED
      BY <2>4, <2>5, <2>6 DEF ChainMends
  <1>4. Distinct'
    <2>1. (\A i \in DOMAIN chain : chain[i] \in allocated)'
      BY <1>k, <1>0, <1>c, <1>n DEF Distinct
    <2>2. (\A i, j \in DOMAIN chain : chain[i] = chain[j] => i = j)'
      BY <1>k, <1>0, <1>c DEF Distinct
    <2>3. (chain # << >> => next[last] = NULL)'
      BY <1>k, <1>0, <1>n
    <2>4. (\A q \in Producer :
            pc[q] = "swap" => /\ proposal[q] \in allocated
                              /\ ~InChain(proposal[q])
                              /\ next[proposal[q]] = NULL)'
      <3> SUFFICES ASSUME NEW q \in Producer, pc'[q] = "swap"
                   PROVE  /\ proposal[q] \in allocated
                          /\ ~InChain(proposal[q])'
                          /\ next[proposal[q]] = NULL
        BY <1>0 DEF InChain
      <3>1. q # p /\ pc[q] = "swap" /\ proposal[q] # n
        BY <1>k, <1>0 DEF TypeOK, Distinct, InPut
      <3>2. ~InChain(proposal[q])
        BY <3>1 DEF Distinct
      <3>3. ~InChain(proposal[q])'
        BY <1>k, <1>0, <1>c, <3>1, <3>2 DEF InChain
      <3> QED
        BY <3>1, <3>3 DEF Distinct
    <2>5. (\A q, r \in Producer :
            InPut(q) /\ InPut(r) /\ proposal[q] = proposal[r] => q = r)'
      BY <1>0 DEF Distinct, TypeOK, InPut
    <2>6. (\A i \in DOMAIN chain : i # 1 => data[chain[i]] \in Job)'
      BY <1>k, <1>0, <1>c, <1>n DEF Distinct
    <2>7. (\A q \in Producer : pc[q] = "swap" => data[proposal[q]] \in Job)'
      BY <1>0 DEF Distinct, TypeOK
    <2> QED
      BY <2>1, <2>2, <2>3, <2>4, <2>5, <2>6, <2>7 DEF Distinct
  <1>5. Consumer'
    BY <1>k, <1>0, <1>c, <1>n DEF Consumer, TypeOK, InChain, InPut, Closing
  <1> QED
    BY <1>1, <1>2, <1>3, <1>4, <1>5

LEMMA PutLinkIInv ==
    ASSUME IInv, NEW p \in Producer, PutLink(p)
    PROVE  IInv'
  <1> USE DEF IInv
  <1>0. /\ pc[p] = "link"
        /\ next' = [next EXCEPT ![prev[p]] = proposal[p]]
        /\ pc' = [pc EXCEPT ![p] = "idle"]
        /\ proposal' = [proposal EXCEPT ![p] = NULL]
        /\ prev' = [prev EXCEPT ![p] = NULL]
        /\ UNCHANGED <<allocated, data, first, last, cpc, to_delete, chain>>
    BY DEF PutLink, LinkAfter
  <1> DEFINE k == Len(chain)
  <1>c. /\ chain \in Seq(Node) /\ k \in Nat /\ DOMAIN chain = 1 .. k
        /\ chain # << >> <=> k > 0
        /\ \A i \in 1 .. k : chain[i] \in Node
    BY Lengths DEF TypeOK
  <1>d. \A i, j \in 1 .. k : chain[i] = chain[j] => i = j
    BY <1>c DEF Distinct
  <1>h. PICK h \in 1 .. k - 1 : Filling(p, h) /\ next[chain[h]] = NULL
    BY <1>0 DEF ChainMends
  <1>n. /\ prev[p] = chain[h] /\ proposal[p] = chain[h + 1]
        /\ \A i \in 1 .. k : i # h => next'[chain[i]] = next[chain[i]]
        /\ next'[chain[h]] = chain[h + 1]
        /\ \A m \in Node : m # chain[h] => next'[m] = next[m]
    BY <1>0, <1>h, <1>c, <1>d DEF Filling, TypeOK
  <1>1. TypeOK'
    BY <1>0 DEF TypeOK
  <1>2. NoLeak'
    BY <1>0 DEF NoLeak, InChain, TypeOK
  <1>3. ChainMends'
    <2>1. \A q \in Producer : \A i \in 1 .. k - 1 :
            q # p => (Filling(q, i) <=> Filling(q, i)')
      BY <1>0 DEF Filling, TypeOK
    <2>2. \A q \in Producer : q # p => ~Filling(q, h)
      BY <1>0, <1>n, <1>c DEF Filling, Distinct, InPut, TypeOK
    <2>3. \A i \in 1 .. k - 1 : i # h => ~Filling(p, i)
      BY <1>n, <1>d, <1>c DEF Filling
    <2>4. (chain # << >> => chain[1] = first /\ chain[Len(chain)] = last)'
      BY <1>0, <1>c DEF ChainMends
    <2>5. (\A i \in 1 .. Len(chain) - 1 :
             \/ next[chain[i]] = chain[i + 1]
             \/ next[chain[i]] = NULL /\ \E q \in Producer : Filling(q, i))'
      <3> SUFFICES ASSUME NEW i \in 1 .. k - 1
                   PROVE  \/ next'[chain[i]] = chain[i + 1]
                          \/ next'[chain[i]] = NULL /\ \E q \in Producer : Filling(q, i)'
        BY <1>0
      <3>1. CASE i = h
        BY <3>1, <1>n
      <3>2. CASE i # h
        BY <3>2, <1>n, <1>c, <2>1, <2>3 DEF ChainMends
      <3> QED
        BY <3>1, <3>2
    <2>6. (\A q \in Producer :
             pc[q] = "link" => \E i \in 1 .. Len(chain) - 1 :
                                 Filling(q, i) /\ next[chain[i]] = NULL)'
      <3> SUFFICES ASSUME NEW q \in Producer, pc'[q] = "link"
                   PROVE  \E i \in 1 .. k - 1 : Filling(q, i)' /\ next'[chain[i]] = NULL
        BY <1>0
      <3>1. q # p /\ pc[q] = "link"
        BY <1>0 DEF TypeOK
      <3>2. PICK i \in 1 .. k - 1 : Filling(q, i) /\ next[chain[i]] = NULL
        BY <3>1 DEF ChainMends
      <3>3. i # h
        BY <3>1, <3>2, <2>2
      <3> QED
        BY <3>1, <3>2, <3>3, <2>1, <1>n, <1>c
    <2> QED
      BY <2>4, <2>5, <2>6 DEF ChainMends
  <1>4. Distinct'
    <2>1. \A q \in Producer : pc[q] = "swap" => proposal[q] # chain[h]
      BY <1>c DEF Distinct, InChain
    <2>2. (chain # << >> => next[last] = NULL)'
      BY <1>0, <1>n, <1>c, <1>d DEF Distinct, ChainMends, TypeOK
    <2>3. (\A q \in Producer :
            pc[q] = "swap" => /\ proposal[q] \in allocated
                              /\ ~InChain(proposal[q])
                              /\ next[proposal[q]] = NULL)'
      BY <1>0, <2>1, <1>n DEF Distinct, TypeOK, InChain
    <2>4. (\A q, r \in Producer :
            InPut(q) /\ InPut(r) /\ proposal[q] = proposal[r] => q = r)'
      BY <1>0 DEF Distinct, TypeOK, InPut
    <2>5. (\A q \in Producer : pc[q] = "swap" => data[proposal[q]] \in Job)'
      BY <1>0 DEF Distinct, TypeOK
    <2> QED
      BY <1>0, <2>2, <2>3, <2>4, <2>5 DEF Distinct
  <1>5. Consumer'
    <2>1. cpc = "advance" => next'[first] # NULL
      BY <1>0, <1>n, <1>c, MpscAssumption DEF Consumer, TypeOK
    <2> QED
      BY <1>0, <2>1 DEF Consumer, TypeOK, InChain, InPut
  <1> QED
    BY <1>1, <1>2, <1>3, <1>4, <1>5

LEMMA GetAdvanceIInv ==
    ASSUME IInv, GetAdvance
    PROVE  IInv'
  <1> USE DEF IInv
  <1>0. /\ cpc = "advance" /\ cpc' = "free"
        /\ to_delete' = first
        /\ first' = next[first]
        /\ chain' = Tail(chain)
        /\ UNCHANGED <<allocated, next, data, last, pc, proposal, prev>>
    BY DEF GetAdvance, Consume, LeftBehind
  <1>k. PICK k, f : k = Len(chain) /\ f = first
    OBVIOUS
  <1>b. /\ next[first] # NULL /\ first # NULL /\ chain # << >>
        /\ chain \in Seq(Node)
    BY <1>0 DEF TypeOK, Consumer, Closing
  <1>d. /\ k \in Nat \ {0} /\ DOMAIN chain = 1 .. k
        /\ \A i \in 1 .. k : chain[i] \in Node
        /\ \A i, j \in 1 .. k : chain[i] = chain[j] => i = j
    BY <1>b, <1>k, Lengths DEF Distinct
  <1>e. /\ k > 1 /\ k - 1 \in Nat \ {0}
        /\ f = chain[1] /\ last = chain[k] /\ next[f] = chain[2]
        /\ chain[1] \in Node /\ chain[2] \in Node /\ chain[1] # chain[2]
    BY <1>b, <1>d, <1>k DEF ChainMends, Distinct
  <1>c. /\ chain' \in Seq(Node) /\ Len(chain') = k - 1 /\ DOMAIN chain' = 1 .. k - 1
        /\ \A i \in 1 .. k - 1 : chain'[i] = chain[i + 1]
        /\ \A j \in 2 .. k : j - 1 \in 1 .. k - 1 /\ chain'[j - 1] = chain[j]
        /\ chain' # << >>
    <2>1. /\ chain' \in Seq(Node) /\ Len(chain') = k - 1
          /\ \A i \in 1 .. k - 1 : chain'[i] = chain[i + 1]
      BY <1>0, <1>b, <1>k, TailOf
    <2> QED
      BY <2>1, <1>d, <1>e, Lengths
  <1>f. ASSUME NEW m \in Node, InChain(m), m # f PROVE InChain(m)'
    <2>1. PICK j \in 2 .. k : chain[j] = m
      BY <1>f, <1>d, <1>e DEF InChain
    <2> QED
      BY <2>1, <1>c DEF InChain
  <1>g. ~InChain(f)'
    <2> SUFFICES ASSUME NEW i \in 1 .. k - 1, chain'[i] = f PROVE FALSE
      BY <1>c DEF InChain
    <2>1. i + 1 \in 1 .. k /\ i + 1 # 1 /\ 1 \in 1 .. k
      BY <1>d
    <2> QED
      BY <2>1, <1>c, <1>d, <1>e
  <1>1. TypeOK'
    BY <1>0, <1>c, <1>e, <1>k, MpscAssumption DEF TypeOK, Closing
  <1>2. NoLeak'
    BY <1>0, <1>f, <1>k DEF NoLeak, TypeOK, Closing
  <1>3. ChainMends'
    <2>1. \A q \in Producer : \A i \in 1 .. k - 2 : Filling(q, i + 1) <=> Filling(q, i)'
      <3> SUFFICES ASSUME NEW q \in Producer, NEW i \in 1 .. k - 2
                   PROVE  Filling(q, i + 1) <=> Filling(q, i)'
        OBVIOUS
      <3>1. /\ i \in 1 .. k - 1 /\ i + 1 \in 1 .. k - 1
            /\ chain'[i] = chain[i + 1] /\ chain'[i + 1] = chain[(i + 1) + 1]
        BY <1>c, <1>d
      <3> QED
        BY <3>1, <1>0 DEF Filling
    <2>2. (chain # << >> => chain[1] = first /\ chain[Len(chain)] = last)'
      <3>1. chain'[1] = chain[2] /\ chain'[k - 1] = chain[k]
        BY <1>c, <1>e, <1>d
      <3> QED
        BY <3>1, <1>0, <1>c, <1>e, <1>k
    <2>3. (\A i \in 1 .. Len(chain) - 1 :
             \/ next[chain[i]] = chain[i + 1]
             \/ next[chain[i]] = NULL /\ \E q \in Producer : Filling(q, i))'
      <3>0. Len(chain') - 1 = k - 2
        BY <1>c, <1>d
      <3> SUFFICES ASSUME NEW i \in 1 .. k - 2
                   PROVE  \/ next'[chain'[i]] = chain'[i + 1]
                          \/ next'[chain'[i]] = NULL /\ \E q \in Producer : Filling(q, i)'
        BY <3>0
      <3>1. /\ i \in 1 .. k - 1 /\ i + 1 \in 1 .. k - 1
            /\ chain'[i] = chain[i + 1] /\ chain'[i + 1] = chain[(i + 1) + 1]
        BY <1>c, <1>d
      <3> QED
        BY <3>1, <2>1, <1>0, <1>k DEF ChainMends
    <2>4. (\A q \in Producer :
             pc[q] = "link" => \E i \in 1 .. Len(chain) - 1 :
                                 Filling(q, i) /\ next[chain[i]] = NULL)'
      <3>0. Len(chain') - 1 = k - 2
        BY <1>c, <1>d
      <3> SUFFICES ASSUME NEW q \in Producer, pc[q] = "link"
                   PROVE  \E i \in 1 .. k - 2 : Filling(q, i)' /\ next[chain'[i]] = NULL
        BY <1>0, <3>0
      <3>1. PICK j \in 1 .. k - 1 : Filling(q, j) /\ next[chain[j]] = NULL
        BY <1>k DEF ChainMends
      <3>2. j # 1
        BY <3>1, <1>e, <1>b, <1>k
      <3>3. j - 1 \in 1 .. k - 2 /\ (j - 1) + 1 = j
        BY <3>2, <1>d
      <3>4. Filling(q, j - 1)'
        BY <3>1, <3>3, <2>1
      <3>5. next[chain'[j - 1]] = NULL
        BY <3>1, <3>3, <1>c, <1>d
      <3> QED
        BY <3>3, <3>4, <3>5
    <2> QED
      BY <2>2, <2>3, <2>4 DEF ChainMends
  <1>4. Distinct'
    <2>1. (\A i \in DOMAIN chain : chain[i] \in allocated)'
      BY <1>0, <1>c, <1>d DEF Distinct
    <2>2. (\A i, j \in DOMAIN chain : chain[i] = chain[j] => i = j)'
      BY <1>c, <1>d
    <2>3. (\A q \in Producer :
            pc[q] = "swap" => /\ proposal[q] \in allocated
                              /\ ~InChain(proposal[q])
                              /\ next[proposal[q]] = NULL)'
      BY <1>0, <1>c, <1>d DEF Distinct, InChain
    <2>4. (\A i \in DOMAIN chain : i # 1 => data[chain[i]] \in Job)'
      BY <1>0, <1>c, <1>d DEF Distinct
    <2> QED
      BY <1>0, <1>b, <2>1, <2>2, <2>3, <2>4 DEF Distinct, InPut
  <1>5. Consumer'
    <2>1. \A q \in Producer : InPut(q) => proposal[q] # f
      <3> SUFFICES ASSUME NEW q \in Producer, InPut(q), proposal[q] = f PROVE FALSE
        OBVIOUS
      <3>1. CASE pc[q] = "swap"
        <4>1. 1 \in DOMAIN chain
          BY <1>d, <1>e
        <4>2. InChain(f)
          BY <4>1, <1>e DEF InChain
        <4> QED
          BY <3>1, <4>2 DEF Distinct
      <3>2. CASE pc[q] = "link"
        <4>1. PICK j \in 1 .. k - 1 : proposal[q] = chain[j + 1]
          BY <3>2, <1>k DEF ChainMends, Filling
        <4> QED
          <5>1. j + 1 \in 1 .. k /\ j + 1 # 1 /\ 1 \in 1 .. k
            BY <1>d
          <5> QED
            BY <4>1, <5>1, <1>e, <1>d
      <3> QED
        BY <3>1, <3>2 DEF InPut, TypeOK
    <2>2. data[chain[2]] \in Job /\ f \in allocated
      BY <1>d, <1>e DEF Distinct
    <2> QED
      BY <1>0, <1>c, <1>e, <1>k, <1>g, <2>1, <2>2, MpscAssumption
      DEF Consumer, InPut, InChain, Closing
  <1> QED
    BY <1>1, <1>2, <1>3, <1>4, <1>5

LEMMA GetFreeIInv ==
    ASSUME IInv, GetFree
    PROVE  IInv'
  <1> USE DEF IInv
  <1>0. /\ cpc = "free" /\ cpc' = "run"
        /\ allocated' = allocated \ {to_delete}
        /\ next' = [next EXCEPT ![to_delete] = NULL]
        /\ data' = [data EXCEPT ![to_delete] = NULL]
        /\ to_delete' = NULL
        /\ UNCHANGED <<first, last, pc, proposal, prev, chain>>
    BY DEF GetFree, Consume, Free
  <1>c. /\ chain \in Seq(Node) /\ Len(chain) \in Nat /\ DOMAIN chain = 1 .. Len(chain)
        /\ \A i \in 1 .. Len(chain) : chain[i] \in allocated /\ chain[i] # to_delete
        /\ chain # << >> <=> Len(chain) > 0
    BY <1>0, Lengths DEF TypeOK, Distinct, Consumer, InChain
  <1>t. to_delete \in Node
    BY <1>0 DEF TypeOK
  <1>1. TypeOK'
    BY <1>0 DEF TypeOK, Closing
  <1>2. NoLeak'
    BY <1>0 DEF NoLeak, InChain, TypeOK
  <1>3. ChainMends'
    <2>1. \A i \in 1 .. Len(chain) : next'[chain[i]] = next[chain[i]]
      BY <1>0, <1>c DEF TypeOK
    <2>2. \A q \in Producer, i \in 1 .. Len(chain) - 1 : Filling(q, i) <=> Filling(q, i)'
      BY <1>0 DEF Filling
    <2> QED
      BY <1>0, <1>c, <2>1, <2>2 DEF ChainMends
  <1>4. Distinct'
    <2>1. \A m \in allocated : m # to_delete => next'[m] = next[m] /\ data'[m] = data[m]
      BY <1>0 DEF TypeOK
    <2>2. \A q \in Producer : pc[q] = "swap" => proposal[q] # to_delete
      BY <1>0 DEF Consumer, InPut
    <2>3. chain # << >> => last \in allocated /\ last # to_delete
      BY <1>c DEF ChainMends
    <2>4. \A q \in Producer :
            pc[q] = "swap" => /\ proposal[q] \in allocated'
                              /\ ~InChain(proposal[q])'
                              /\ next'[proposal[q]] = NULL
                              /\ data'[proposal[q]] \in Job
      BY <1>0, <2>1, <2>2 DEF Distinct, InChain
    <2> QED
      BY <1>0, <1>c, <2>1, <2>3, <2>4 DEF Distinct, InPut
  <1>5. Consumer'
    <2>1. data'[first] = data[first]
      BY <1>0, <1>c DEF Consumer, TypeOK, Closing, ChainMends
    <2> QED
      BY <1>0, <1>c, <2>1 DEF Consumer, InPut, Closing
  <1> QED
    BY <1>1, <1>2, <1>3, <1>4, <1>5

LEMMA DestroyNextIInv ==
    ASSUME IInv, DestroyNext
    PROVE  IInv'
  <1> USE DEF IInv
  <1>k. PICK k, f : k = Len(chain) /\ f = first
    OBVIOUS
  <1>0. /\ cpc = "destroy" /\ f # NULL
        /\ allocated' = allocated \ {f}
        /\ next' = [next EXCEPT ![f] = NULL]
        /\ data' = [data EXCEPT ![f] = NULL]
        /\ first' = next[f]
        /\ chain' = Tail(chain)
        /\ UNCHANGED <<last, pc, proposal, prev, cpc, to_delete>>
    BY <1>k DEF DestroyNext, Free
  <1>i. \A p \in Producer : pc[p] = "idle"
    BY <1>0 DEF Consumer, Closing
  <1>b. chain \in Seq(Node) /\ chain # << >> /\ f \in Node
    BY <1>0, <1>k DEF TypeOK, Consumer
  <1>d. /\ k \in Nat \ {0} /\ DOMAIN chain = 1 .. k
        /\ \A i \in 1 .. k : chain[i] \in allocated
        /\ \A i, j \in 1 .. k : chain[i] = chain[j] => i = j
    BY <1>b, <1>k, Lengths DEF Distinct
  <1>c. /\ chain' \in Seq(Node) /\ Len(chain') = k - 1 /\ DOMAIN chain' = 1 .. k - 1
        /\ \A i \in 1 .. k - 1 : chain'[i] = chain[i + 1]
        /\ \A j \in 2 .. k : j - 1 \in 1 .. k - 1 /\ chain'[j - 1] = chain[j]
        /\ chain' # << >> <=> k > 1
    <2>1. /\ chain' \in Seq(Node) /\ Len(chain') = k - 1
          /\ \A i \in 1 .. k - 1 : chain'[i] = chain[i + 1]
      BY <1>0, <1>b, <1>k, TailOf
    <2> QED
      BY <2>1, <1>d, Lengths
  <1>e. /\ f = chain[1] /\ last = chain[k]
        /\ \A i \in 1 .. k - 1 : next[chain[i]] = chain[i + 1]
        /\ next[last] = NULL
        /\ 1 \in 1 .. k
    BY <1>b, <1>d, <1>i, <1>k DEF ChainMends, Distinct, Filling
  <1>f. \A i \in 1 .. k - 1 : /\ chain'[i] # f
                              /\ chain'[i] \in allocated'
                              /\ next'[chain'[i]] = next[chain'[i]]
    <2> SUFFICES ASSUME NEW i \in 1 .. k - 1
                 PROVE  /\ chain'[i] # f
                        /\ chain'[i] \in allocated'
                        /\ next'[chain'[i]] = next[chain'[i]]
      OBVIOUS
    <2>1. i + 1 \in 1 .. k /\ i + 1 # 1
      BY <1>d
    <2>2. chain[i + 1] # f
      BY <2>1, <1>d, <1>e
    <2> QED
      BY <2>1, <2>2, <1>0, <1>c, <1>d DEF TypeOK
  <1>g. first' = IF k = 1 THEN NULL ELSE chain[2]
    BY <1>0, <1>d, <1>e
  <1>h. \A m \in allocated : m # f => \E j \in 2 .. k : chain[j] = m
    BY <1>0, <1>i, <1>d, <1>e DEF NoLeak, InChain
  <1>1. TypeOK'
    <2>1. next' \in [Node -> Node \cup {NULL}] /\ data' \in [Node -> Job \cup {NULL}]
      BY <1>0 DEF TypeOK
    <2>2. first' \in Node \cup {NULL}
      BY <1>0, <1>b DEF TypeOK
    <2> QED
      BY <1>0, <1>c, <2>1, <2>2 DEF TypeOK, Closing
  <1>2. NoLeak'
    BY <1>0, <1>h, <1>c DEF NoLeak, InChain
  <1>3. ChainMends'
    <2>1. (chain # << >> => chain[1] = first /\ chain[Len(chain)] = last)'
      <3> SUFFICES ASSUME k > 1
                   PROVE  chain'[1] = first' /\ chain'[k - 1] = last'
        BY <1>c
      <3>1. chain'[1] = chain[2] /\ chain'[k - 1] = chain[k]
        BY <1>c, <1>d
      <3> QED
        BY <3>1, <1>0, <1>e, <1>g
    <2>2. (\A i \in 1 .. Len(chain) - 1 :
             \/ next[chain[i]] = chain[i + 1]
             \/ next[chain[i]] = NULL /\ \E q \in Producer : Filling(q, i))'
      <3>0. Len(chain') - 1 = k - 2
        BY <1>c, <1>d
      <3> SUFFICES ASSUME NEW i \in 1 .. k - 2
                   PROVE  next'[chain'[i]] = chain'[i + 1]
        BY <3>0
      <3>1. /\ i \in 1 .. k - 1 /\ i + 1 \in 1 .. k - 1
            /\ chain'[i] = chain[i + 1] /\ chain'[i + 1] = chain[(i + 1) + 1]
        BY <1>c, <1>d
      <3> QED
        BY <3>1, <1>e, <1>f
    <2> QED
      BY <2>1, <2>2, <1>0, <1>i DEF ChainMends
  <1>4. Distinct'
    <2>1. (\A i, j \in DOMAIN chain : chain[i] = chain[j] => i = j)'
      BY <1>c, <1>d
    <2>2. (chain # << >> => next[last] = NULL)'
      <3> SUFFICES ASSUME k > 1 PROVE next'[last] = NULL
        BY <1>0, <1>c
      <3>1. k - 1 \in 1 .. k - 1 /\ chain'[k - 1] = last
        BY <1>c, <1>d, <1>e
      <3> QED
        BY <3>1, <1>e, <1>f
    <2>3. (\A i \in DOMAIN chain : i # 1 => data[chain[i]] \in Job)'
      <3> SUFFICES ASSUME NEW i \in 1 .. k - 1 PROVE data'[chain'[i]] \in Job
        BY <1>c
      <3>1. i + 1 \in 1 .. k /\ i + 1 # 1 /\ chain[i + 1] \in Node
        BY <1>d DEF TypeOK
      <3>2. data[chain[i + 1]] \in Job
        BY <3>1, <1>d DEF Distinct
      <3> QED
        BY <3>1, <3>2, <1>0, <1>c, <1>f DEF TypeOK
    <2> QED
      BY <2>1, <2>2, <2>3, <1>0, <1>c, <1>f, <1>i DEF Distinct, InPut
  <1>5. Consumer'
    <2>1. k > 1 => chain[2] # NULL
      BY <1>d, MpscAssumption DEF TypeOK
    <2> QED
      BY <2>1, <1>0, <1>c, <1>d, <1>g, <1>i DEF Consumer
  <1> QED
    BY <1>1, <1>2, <1>3, <1>4, <1>5

\* The other steps move only the consumer's program counter.
LEMMA ConsumerIInv ==
    ASSUME IInv, DoTodos \/ GetEmpty \/ GetSome \/ RunJob \/ Destroy \/ DestroyDone
    PROVE  IInv'
  <1> USE DEF IInv
  <1>0. UNCHANGED <<allocated, next, data, first, last, pc, proposal, prev,
                    to_delete, chain>>
    BY DEF DoTodos, GetEmpty, GetSome, RunJob, Destroy, DestroyDone
  <1>1. /\ cpc' \in {"idle", "get", "advance", "destroy", "gone"}
        /\ cpc' = "advance" => next[first] # NULL
        /\ cpc' \in Closing => /\ \A p \in Producer : pc[p] = "idle"
                               /\ cpc' = "gone" => cpc = "destroy" /\ first = NULL
        /\ cpc' \notin Closing => cpc \notin Closing
        /\ cpc # "free"
    BY DEF DoTodos, GetEmpty, GetSome, RunJob, Destroy, DestroyDone, Consume,
           HasNext, Closing, Consumer
  <1>2. TypeOK'
    BY <1>0, <1>1 DEF TypeOK, Closing
  <1>3. NoLeak'
    <2>1. cpc' = "gone" => allocated = {}
      <3> SUFFICES ASSUME cpc' = "gone", NEW n \in allocated PROVE FALSE
        OBVIOUS
      <3>1. chain = << >> /\ \A p \in Producer : pc[p] = "idle"
        BY <1>1 DEF Consumer, Closing
      <3> QED
        BY <3>1, <1>1 DEF NoLeak, InChain
    <2> QED
      BY <1>0, <1>1, <2>1 DEF NoLeak, InChain
  <1>4. ChainMends'
    BY <1>0 DEF ChainMends, Filling
  <1>5. Distinct'
    BY <1>0 DEF Distinct, InPut, InChain
  <1>6. Consumer'
    BY <1>0, <1>1 DEF Consumer, InPut, InChain, Closing
  <1> QED
    BY <1>2, <1>3, <1>4, <1>5, <1>6
-----------------------------------------------------------------------------
LEMMA NextIInv ==
    ASSUME IInv, [Next]_vars
    PROVE  IInv'
  <1>1. ASSUME NEW p \in Producer, Put(p) PROVE IInv'
    BY <1>1, PutAllocIInv, PutSwapIInv, PutLinkIInv DEF Put
  <1>2. CASE Get
    BY <1>2, GetAdvanceIInv, GetFreeIInv, ConsumerIInv DEF Get
  <1>3. CASE DoTodos \/ RunJob \/ Destroy \/ DestroyDone
    BY <1>3, ConsumerIInv
  <1>4. CASE DestroyNext
    BY <1>4, DestroyNextIInv
  <1>5. CASE UNCHANGED vars
    BY <1>5 DEF vars, IInv, TypeOK, NoLeak, ChainMends, Distinct, Consumer,
                Filling, InPut, InChain
  <1> QED
    BY <1>1, <1>2, <1>3, <1>4, <1>5 DEF Next

\* The inductive invariant holds in every reachable state.
THEOREM Invariance == Spec => []IInv
  <1> QED
    BY InitIInv, NextIInv, PTL DEF Spec

\* Types, for any number of threads, jobs and addresses.
THEOREM TypeCorrect == Spec => []TypeOK
  <1>1. IInv => TypeOK
    BY DEF IInv
  <1> QED
    BY <1>1, Invariance, PTL

\* No thread touches a freed node: the node a suspended put must still write to is
\* in the chain, because its link is missing and get stops in front of it.
THEOREM MemorySafety == Spec => []MemorySafe
  <1>1. IInv => MemorySafe
    <2> SUFFICES ASSUME IInv PROVE MemorySafe
      OBVIOUS
    <2> USE DEF IInv
    <2>0. /\ Len(chain) \in Nat /\ DOMAIN chain = 1 .. Len(chain)
          /\ chain # << >> <=> Len(chain) > 0
      BY Lengths DEF TypeOK
    <2>1. first # NULL => InChain(first) /\ first \in allocated
      BY FirstAllocated
    <2>2. cpc = "free" => first # NULL /\ to_delete \in allocated \ {first}
      BY <2>1 DEF Consumer, TypeOK, Closing
    <2>3. ASSUME NEW p \in Producer, pc[p] = "link"
          PROVE  prev[p] \in allocated /\ proposal[p] \in allocated
      <3>1. PICK i \in 1 .. Len(chain) - 1 :
                prev[p] = chain[i] /\ proposal[p] = chain[i + 1]
        BY <2>3 DEF ChainMends, Filling
      <3> QED
        BY <3>1, <2>0 DEF Distinct
    <2> QED
      BY <2>1, <2>2, <2>3 DEF MemorySafe
  <1> QED
    BY <1>1, Invariance, PTL

\* Nothing allocated is out of reach of get, of a put or of ~mpsc.
THEOREM LeakFreedom == Spec => []NoLeak
  <1>1. IInv => NoLeak
    BY DEF IInv
  <1> QED
    BY <1>1, Invariance, PTL

\* Every missing link has a put that will store it.
THEOREM Mending == Spec => []ChainMends
  <1>1. IInv => ChainMends
    BY DEF IInv
  <1> QED
    BY <1>1, Invariance, PTL
-----------------------------------------------------------------------------
(***************************************************************************)
(* The refinement of TodoQueue.                                            *)
(***************************************************************************)
\* A sequence one longer than s that agrees with it is s with its last element
\* appended; one shorter that agrees shifted is its tail.
LEMMA IsAppend ==
    ASSUME NEW S, NEW s \in Seq(S), NEW t \in Seq(S), NEW e \in S,
           Len(t) = Len(s) + 1,
           \A i \in 1 .. Len(s) : t[i] = s[i],
           t[Len(s) + 1] = e
    PROVE  t = Append(s, e)
  OBVIOUS

LEMMA IsTail ==
    ASSUME NEW S, NEW s \in Seq(S), NEW t \in Seq(S), s # << >>,
           Len(t) = Len(s) - 1,
           \A i \in 1 .. Len(s) - 1 : t[i] = s[i + 1]
    PROVE  t = Tail(s)
  OBVIOUS

\* Who is still adding the node at position i: the thread that has its link.
LEMMA AdderIs ==
    ASSUME IInv, NEW n \in Node
    PROVE  /\ \A p \in Producer : pc[p] = "link" /\ proposal[p] = n => Adder(n) = p
           /\ (\A p \in Producer : ~(pc[p] = "link" /\ proposal[p] = n))
                => Adder(n) = NULL
  BY DEF Adder, IInv, Distinct, InPut

Entries == [job : Job \cup {NULL}, by : Producer \cup {NULL}]

\* The shape of the mapped queue, in this state and the next.
QueuedShape ==
    /\ Queued \in Seq(Entries)
    /\ Len(chain) \in Nat
    /\ Len(chain) >= 1 => Len(Queued) = Len(chain) - 1
    /\ \A i \in 1 .. Len(chain) - 1 :
         Queued[i] = [job |-> data[chain[i + 1]], by |-> Adder(chain[i + 1])]
    /\ Len(chain) <= 1 => Queued = << >>

LEMMA QueuedIs == TypeOK => QueuedShape
  <1> SUFFICES ASSUME TypeOK PROVE QueuedShape
    OBVIOUS
  <1> USE DEF QueuedShape
  <1>1. \A n : Adder(n) \in Producer \cup {NULL}
    BY DEF Adder
  <1>2. /\ Len(chain) \in Nat
        /\ \A i \in 1 .. Len(chain) - 1 : chain[i + 1] \in Node
    BY DEF TypeOK
  <1>3. \A i \in 1 .. Len(chain) - 1 :
            [job |-> data[chain[i + 1]], by |-> Adder(chain[i + 1])] \in Entries
    BY <1>1, <1>2 DEF TypeOK, Entries
  <1>4. Len(chain) <= 1 => Queued = << >>
    BY <1>2 DEF Queued
  <1>5. CASE Len(chain) >= 1
    <2>1. Len(chain) - 1 \in Nat
      BY <1>2, <1>5
    <2> QED
      BY <2>1, <1>2, <1>3, <1>4 DEF Queued
  <1>6. CASE Len(chain) = 0
    BY <1>2, <1>4, <1>6 DEF Queued
  <1> QED
    BY <1>2, <1>5, <1>6

LEMMA QueuedIsNext == TypeOK' => QueuedShape'
  BY QueuedIs, PTL

LEMMA InitRefines == Init => Todo!Init
  <1> SUFFICES ASSUME Init PROVE Todo!Init
    OBVIOUS
  <1>1. TypeOK /\ Len(chain) = 1
    BY InitIInv DEF Init, IInv
  <1>2. Queued = << >>
    BY <1>1, QueuedIs DEF QueuedShape
  <1> QED
    BY <1>2 DEF Init, Todo!Init, Running, Closing

\* A put's first step is private: the abstract queue does not see it.
LEMMA PutAllocRefines ==
    ASSUME IInv, NEW p \in Producer, NEW job \in Job, PutAlloc(p, job)
    PROVE  UNCHANGED <<Queued, Running>> /\ UNCHANGED cpc
  <1> USE DEF IInv
  <1> PICK n \in Node \ allocated :
        /\ data' = [data EXCEPT ![n] = job]
        /\ proposal' = [proposal EXCEPT ![p] = n]
        /\ pc[p] = "idle"
        /\ pc' = [pc EXCEPT ![p] = "swap"]
        /\ UNCHANGED <<first, chain, cpc>>
    BY DEF PutAlloc
  <1>1. \A i \in 1 .. Len(chain) - 1 :
          /\ i + 1 \in DOMAIN chain
          /\ chain[i + 1] \in Node /\ chain[i + 1] \in allocated
          /\ data'[chain[i + 1]] = data[chain[i + 1]]
    BY Lengths DEF TypeOK, Distinct
  <1>2. \A m \in Node : Adder(m)' = Adder(m)
    <2> SUFFICES ASSUME NEW m \in Node PROVE Adder(m)' = Adder(m)
      OBVIOUS
    <2>1. \A q \in Producer : (pc[q] = "link" /\ proposal[q] = m)
                               <=> (pc'[q] = "link" /\ proposal'[q] = m)
      BY DEF TypeOK
    <2>3. CASE \E q \in Producer : pc[q] = "link" /\ proposal[q] = m
      BY <2>1, <2>3 DEF Adder, Distinct, InPut
    <2>4. CASE \A q \in Producer : ~(pc[q] = "link" /\ proposal[q] = m)
      BY <2>1, <2>4 DEF Adder
    <2> QED
      BY <2>3, <2>4
  <1>3. Queued' = Queued
    BY <1>1, <1>2 DEF Queued
  <1>4. Running' = Running
    BY FirstAllocated DEF Running, TypeOK, Closing
  <1> QED
    BY <1>3, <1>4

\* The exchange is where an add_todo takes effect.
LEMMA PutSwapRefines ==
    ASSUME IInv, NEW p \in Producer, PutSwap(p)
    PROVE  Todo!Enqueue(p, data[proposal[p]]) /\ data[proposal[p]] \in Job
  <1> USE DEF IInv
  <1>k. PICK n, k : n = proposal[p] /\ k = Len(chain)
    OBVIOUS
  <1>0. /\ pc[p] = "swap"
        /\ chain' = Append(chain, n)
        /\ pc' = [pc EXCEPT ![p] = "link"]
        /\ UNCHANGED <<data, first, proposal, cpc>>
    BY <1>k DEF PutSwap
  <1>n. n \in Node /\ data[n] \in Job /\ cpc \notin Closing /\ chain # << >>
    BY <1>k, <1>0 DEF TypeOK, Distinct, Consumer, Closing
  <1>c. /\ chain \in Seq(Node) /\ k \in Nat \ {0} /\ DOMAIN chain = 1 .. k
        /\ chain' \in Seq(Node) /\ Len(chain') = k + 1
        /\ \A i \in 1 .. k : chain'[i] = chain[i] /\ chain[i] # n /\ chain[i] \in Node
        /\ chain'[k + 1] = n
    BY <1>k, <1>0, <1>n, AppendTo, Lengths DEF TypeOK, Distinct, InChain
  <1>1. \A q \in Producer :
          q # p => pc'[q] = pc[q] /\ (InPut(q) => proposal[q] # n)
    BY <1>k, <1>0 DEF TypeOK, Distinct, InPut
  <1>2. \A m \in Node : m # n => Adder(m)' = Adder(m)
    <2> SUFFICES ASSUME NEW m \in Node, m # n PROVE Adder(m)' = Adder(m)
      OBVIOUS
    <2>1. \A q \in Producer : (pc[q] = "link" /\ proposal[q] = m)
                               <=> (pc'[q] = "link" /\ proposal'[q] = m)
      BY <1>k, <1>0 DEF TypeOK
    <2>2. CASE \E q \in Producer : pc[q] = "link" /\ proposal[q] = m
      BY <2>1, <2>2 DEF Adder, Distinct, InPut
    <2>3. CASE \A q \in Producer : ~(pc[q] = "link" /\ proposal[q] = m)
      BY <2>1, <2>3 DEF Adder
    <2> QED
      BY <2>2, <2>3
  <1>3. Adder(n)' = p
    <2>1. \A q \in Producer : pc'[q] = "link" /\ proposal'[q] = n <=> q = p
      BY <1>k, <1>0, <1>1 DEF TypeOK, InPut
    <2> QED
      BY <2>1 DEF Adder
  <1>t. TypeOK' /\ TypeOK
    BY PutSwapIInv
  <1>q. /\ Queued \in Seq(Entries) /\ Queued' \in Seq(Entries)
        /\ Len(Queued) = k - 1 /\ Len(Queued') = k
        /\ \A i \in 1 .. k - 1 :
             Queued[i] = [job |-> data[chain[i + 1]], by |-> Adder(chain[i + 1])]
        /\ \A i \in 1 .. k :
             Queued'[i] = [job |-> data[chain'[i + 1]], by |-> Adder(chain[i + 1])']
    BY <1>t, <1>k, <1>0, <1>c, QueuedIs, QueuedIsNext DEF QueuedShape
  <1>4. \A i \in 1 .. k - 1 : Queued'[i] = Queued[i]
    <2> SUFFICES ASSUME NEW i \in 1 .. k - 1 PROVE Queued'[i] = Queued[i]
      OBVIOUS
    <2>1. /\ i + 1 \in 1 .. k /\ i \in 1 .. k
          /\ chain'[i + 1] = chain[i + 1] /\ chain[i + 1] # n /\ chain[i + 1] \in Node
      BY <1>c
    <2> QED
      BY <2>1, <1>q, <1>2
  <1>e. [job |-> data[n], by |-> p] \in Entries
    BY <1>n DEF Entries
  <1>5. Queued' = Append(Queued, [job |-> data[n], by |-> p])
    <2>1. Queued'[k] = [job |-> data[n], by |-> p]
      BY <1>q, <1>c, <1>3
    <2> QED
      BY <2>1, <1>4, <1>q, <1>e, <1>c, IsAppend
  <1>6. \A i \in DOMAIN Queued : Queued[i].by # p
    <2>1. \A m \in Node : Adder(m) # p
      BY <1>0, MpscAssumption DEF Adder
    <2>2. \A i \in 1 .. k - 1 : i + 1 \in 1 .. k
      BY <1>c
    <2> QED
      <3>1. DOMAIN Queued = 1 .. k - 1
        BY <1>q, Lengths
      <3> SUFFICES ASSUME NEW i \in 1 .. k - 1 PROVE Queued[i].by # p
        BY <3>1
      <3>2. Adder(chain[i + 1]) # p
        BY <2>1, <2>2, <1>c
      <3> QED
        BY <3>2, <1>q
  <1>7. Running' = Running
    BY <1>0 DEF Running
  <1> QED
    BY <1>k, <1>0, <1>n, <1>5, <1>6, <1>7 DEF Todo!Enqueue

\* The store is where it completes.
LEMMA PutLinkRefines ==
    ASSUME IInv, NEW p \in Producer, PutLink(p)
    PROVE  Todo!Land(p)
  <1> USE DEF IInv
  <1>0. /\ pc[p] = "link"
        /\ pc' = [pc EXCEPT ![p] = "idle"]
        /\ proposal' = [proposal EXCEPT ![p] = NULL]
        /\ UNCHANGED <<data, first, cpc, chain>>
    BY DEF PutLink
  <1>k. PICK k : k = Len(chain)
    OBVIOUS
  <1>t. TypeOK /\ TypeOK' /\ k \in Nat
    BY PutLinkIInv, <1>k DEF TypeOK
  <1>h. PICK h \in 1 .. k - 1 : proposal[p] = chain[h + 1]
    BY <1>0, <1>k DEF ChainMends, Filling
  <1>q. /\ Queued \in Seq(Entries) /\ Queued' \in Seq(Entries)
        /\ DOMAIN Queued = 1 .. k - 1 /\ DOMAIN Queued' = 1 .. k - 1
        /\ \A i \in 1 .. k - 1 :
             /\ Queued[i] = [job |-> data[chain[i + 1]], by |-> Adder(chain[i + 1])]
             /\ Queued'[i] = [job |-> data[chain[i + 1]], by |-> Adder(chain[i + 1])']
    BY <1>t, <1>k, <1>0, QueuedIs, QueuedIsNext DEF QueuedShape, Queued
  <1>a. ASSUME NEW m \in Node
        PROVE  Adder(m)' = IF Adder(m) = p THEN NULL ELSE Adder(m)
    <2>1. \A q \in Producer : (pc'[q] = "link" /\ proposal'[q] = m)
                               <=> (q # p /\ pc[q] = "link" /\ proposal[q] = m)
      BY <1>0 DEF TypeOK
    <2>2. CASE pc[p] = "link" /\ proposal[p] = m
      <3>1. \A q \in Producer : pc[q] = "link" /\ proposal[q] = m => q = p
        BY <2>2 DEF Distinct, InPut
      <3> QED
        BY <2>1, <2>2, <3>1 DEF Adder
    <2>3. CASE \E q \in Producer : q # p /\ pc[q] = "link" /\ proposal[q] = m
      <3>1. PICK q \in Producer : q # p /\ pc[q] = "link" /\ proposal[q] = m
        BY <2>3
      <3>2. \A r \in Producer : pc[r] = "link" /\ proposal[r] = m <=> r = q
        BY <3>1 DEF Distinct, InPut
      <3>3. Adder(m) = q
        BY <3>2 DEF Adder
      <3>4. Adder(m)' = q
        BY <2>1, <3>1, <3>2 DEF Adder
      <3> QED
        BY <3>1, <3>3, <3>4
    <2>4. CASE \A q \in Producer : ~(pc[q] = "link" /\ proposal[q] = m)
      BY <2>1, <2>4, MpscAssumption DEF Adder
    <2> QED
      BY <2>2, <2>3, <2>4
  <1>b. \A i \in 1 .. k - 1 : chain[i + 1] \in Node
    BY <1>k, <1>t DEF TypeOK
  <1>1. Queued[h].by = p
    <2>1. Adder(chain[h + 1]) = p
      BY <1>0, <1>h, <1>b DEF Adder, Distinct, InPut
    <2> QED
      BY <2>1, <1>q
  <1>2. Queued' = [i \in DOMAIN Queued |->
                    [Queued[i] EXCEPT !.by = IF @ = p THEN NULL ELSE @]]
    <2>1. ASSUME NEW i \in 1 .. k - 1
          PROVE  Queued'[i] = [Queued[i] EXCEPT !.by = IF @ = p THEN NULL ELSE @]
      <3>1. chain[i + 1] \in Node
        BY <1>b
      <3>2. Adder(chain[i + 1])' = IF Adder(chain[i + 1]) = p THEN NULL
                                                              ELSE Adder(chain[i + 1])
        BY <3>1, <1>a, <1>0
      <3> QED
        BY <3>2, <1>q
    <2>2. Queued' = [i \in DOMAIN Queued |-> Queued'[i]]
      BY <1>q, <1>0, <1>k DEF Queued
    <2> QED
      BY <2>1, <2>2, <1>q
  <1>3. Running' = Running
    BY <1>0 DEF Running
  <1> QED
    BY <1>0, <1>1, <1>2, <1>3, <1>q, <1>h DEF Todo!Land

\* Stepping to the next node takes the oldest job, which has landed.
LEMMA GetAdvanceRefines ==
    ASSUME IInv, GetAdvance
    PROVE  Todo!Dequeue
  <1> USE DEF IInv
  <1>0. /\ cpc = "advance" /\ cpc' = "free"
        /\ first' = next[first]
        /\ chain' = Tail(chain)
        /\ UNCHANGED <<data, pc, proposal>>
    BY DEF GetAdvance, Consume
  <1>k. PICK k : k = Len(chain)
    OBVIOUS
  <1>t. TypeOK /\ TypeOK' /\ k \in Nat
    BY GetAdvanceIInv, <1>k DEF TypeOK
  <1>b. /\ next[first] # NULL /\ chain # << >> /\ first = chain[1]
        /\ chain \in Seq(Node)
    BY <1>0 DEF TypeOK, Consumer, Closing, ChainMends
  <1>d. /\ k > 1 /\ next[first] = chain[2]
        /\ \A i, j \in 1 .. k : chain[i] = chain[j] => i = j
        /\ data[chain[2]] \in Job
        /\ \A i \in 1 .. k : chain[i] \in Node
    BY <1>b, <1>k, Lengths DEF ChainMends, Distinct
  <1>c. /\ Len(chain') = k - 1
        /\ \A i \in 1 .. k - 1 : chain'[i] = chain[i + 1]
    BY <1>0, <1>b, <1>k, TailOf
  <1>q. /\ Queued \in Seq(Entries) /\ Queued' \in Seq(Entries)
        /\ Len(Queued) = k - 1 /\ Len(Queued') = k - 2
        /\ \A i \in 1 .. k - 1 :
             Queued[i] = [job |-> data[chain[i + 1]], by |-> Adder(chain[i + 1])]
        /\ \A i \in 1 .. k - 2 :
             Queued'[i] = [job |-> data[chain'[i + 1]], by |-> Adder(chain[i + 1])']
    BY <1>t, <1>k, <1>0, <1>c, <1>d, QueuedIs, QueuedIsNext DEF QueuedShape
  <1>1. Queued' = Tail(Queued) /\ Queued # << >>
    <2>1. \A i \in 1 .. k - 2 : Queued'[i] = Queued[i + 1]
      <3> SUFFICES ASSUME NEW i \in 1 .. k - 2 PROVE Queued'[i] = Queued[i + 1]
        OBVIOUS
      <3>1. i + 1 \in 1 .. k - 1 /\ chain'[i + 1] = chain[(i + 1) + 1]
        BY <1>c, <1>t
      <3>2. Adder(chain[i + 1])' = Adder(chain[(i + 1) + 1])
        BY <3>1, <1>0 DEF Adder
      <3> QED
        BY <3>1, <3>2, <1>q
    <2> QED
      BY <2>1, <1>q, <1>t, <1>d, IsTail
  <1>2. Head(Queued) = [job |-> data[chain[2]], by |-> Adder(chain[2])]
    <2>1. 1 \in 1 .. k - 1 /\ 1 + 1 = 2
      BY <1>d, <1>t
    <2>2. Queued[1] = [job |-> data[chain[2]], by |-> Adder(chain[2])]
      BY <2>1, <1>q
    <2> QED
      BY <2>2, <1>q, <1>1
  <1>3. Adder(chain[2]) = NULL
    <2> SUFFICES ASSUME NEW p \in Producer, pc[p] = "link", proposal[p] = chain[2]
                 PROVE  FALSE
      BY DEF Adder
    <2>1. PICK i \in 1 .. k - 1 : Filling(p, i) /\ next[chain[i]] = NULL
      BY <1>k DEF ChainMends
    <2>2. chain[i + 1] = chain[2] /\ i + 1 \in 1 .. k /\ 2 \in 1 .. k
      BY <2>1, <1>d, <1>t DEF Filling
    <2>3. i = 1
      BY <2>2, <1>d, <1>t
    <2> QED
      BY <2>1, <2>3, <1>b
  <1>4. Running = NULL /\ Running' = data[chain[2]]
    BY <1>0, <1>d DEF Running
  <1> QED
    BY <1>0, <1>1, <1>2, <1>3, <1>4 DEF Todo!Dequeue, Todo!Landed, Closing

\* Freeing the node left behind is not seen.
LEMMA GetFreeRefines ==
    ASSUME IInv, GetFree
    PROVE  UNCHANGED <<Queued, Running>> /\ cpc = "free" /\ cpc' = "run"
  <1> USE DEF IInv
  <1>0. /\ cpc = "free" /\ cpc' = "run"
        /\ data' = [data EXCEPT ![to_delete] = NULL]
        /\ UNCHANGED <<first, pc, proposal, chain>>
    BY DEF GetFree, Consume, Free
  <1>1. \A i \in 1 .. Len(chain) - 1 : data'[chain[i + 1]] = data[chain[i + 1]]
    BY <1>0, Lengths DEF TypeOK, Consumer, InChain
  <1>2. \A i \in 1 .. Len(chain) - 1 : Adder(chain[i + 1])' = Adder(chain[i + 1])
    BY <1>0 DEF Adder
  <1>3. Queued' = Queued
    BY <1>0, <1>1, <1>2 DEF Queued
  <1>4. InChain(first) /\ first \in Node
    BY <1>0, FirstAllocated DEF TypeOK, Closing
  <1>5. Running' = Running
    BY <1>0, <1>4 DEF Running, Consumer, TypeOK
  <1> QED
    BY <1>0, <1>3, <1>5

\* get returns NULL: the queue is empty or its head is still being added.
LEMMA GetEmptyRefines ==
    ASSUME IInv, GetEmpty
    PROVE  Todo!Stop
  <1> USE DEF IInv
  <1>0. /\ cpc = "get" /\ cpc' = "idle" /\ next[first] = NULL
        /\ UNCHANGED <<data, first, pc, proposal, chain>>
    BY DEF GetEmpty, Consume, HasNext
  <1>k. PICK k : k = Len(chain)
    OBVIOUS
  <1>b. /\ chain # << >> /\ chain \in Seq(Node) /\ k \in Nat \ {0}
        /\ first = chain[1]
        /\ \A i \in 1 .. k : chain[i] \in Node
    BY <1>0, <1>k, Lengths DEF TypeOK, Consumer, Closing, ChainMends
  <1>1. UNCHANGED <<Queued, Running>>
    <2>1. \A i \in 1 .. Len(chain) - 1 : Adder(chain[i + 1])' = Adder(chain[i + 1])
      BY <1>0 DEF Adder
    <2> QED
      BY <2>1, <1>0 DEF Queued, Running
  <1>2. Queued = << >> \/ ~Todo!Landed(Head(Queued))
    <2>1. CASE k = 1
      BY <2>1, <1>k, QueuedIs DEF QueuedShape
    <2>2. CASE k # 1
      <3>1. 1 \in 1 .. k - 1 /\ 1 + 1 = 2 /\ k - 1 > 0 /\ 2 \in 1 .. k
        BY <1>b, <2>2
      <3>2. chain[2] # NULL
        BY <3>1, <1>b, MpscAssumption
      <3>3. PICK p \in Producer : Filling(p, 1)
        BY <3>1, <3>2, <1>0, <1>b, <1>k DEF ChainMends
      <3>4. Adder(chain[2]) \in Producer
        BY <3>3 DEF Filling, Adder
      <3>5. Queued \in Seq(Entries) /\ Len(Queued) > 0
            /\ Queued[1] = [job |-> data[chain[2]], by |-> Adder(chain[2])]
        BY <3>1, <1>k, <1>b, QueuedIs DEF QueuedShape
      <3>6. Head(Queued).by = Adder(chain[2])
        BY <3>5
      <3> QED
        BY <3>4, <3>6, MpscAssumption DEF Todo!Landed
    <2> QED
      BY <2>1, <2>2
  <1> QED
    BY <1>0, <1>1, <1>2 DEF Todo!Stop, Running, Closing

\* ~mpsc drops the jobs left, one per node after the sentinel.
LEMMA DestroyNextRefines ==
    ASSUME IInv, DestroyNext
    PROVE  Todo!Discard \/ UNCHANGED Todo!absVars
  <1> USE DEF IInv
  <1>k. PICK k, f : k = Len(chain) /\ f = first
    OBVIOUS
  <1>0. /\ cpc = "destroy" /\ f # NULL
        /\ data' = [data EXCEPT ![f] = NULL]
        /\ chain' = Tail(chain)
        /\ UNCHANGED <<pc, proposal, cpc>>
    BY <1>k DEF DestroyNext, Free
  <1>t. TypeOK /\ TypeOK' /\ k \in Nat
    BY DestroyNextIInv, <1>k DEF TypeOK
  <1>s. /\ chain \in Seq(Node) /\ chain # << >>
        /\ f = chain[1] /\ f \in Node /\ k > 0
    BY <1>0, <1>k, Lengths DEF TypeOK, Consumer, ChainMends
  <1>b. /\ \A i, j \in 1 .. k : chain[i] = chain[j] => i = j
        /\ \A i \in 1 .. k : chain[i] \in Node
        /\ Len(chain') = k - 1
        /\ \A i \in 1 .. k - 1 : chain'[i] = chain[i + 1]
    <2>1. /\ DOMAIN chain = 1 .. k
          /\ \A i \in 1 .. k : chain[i] \in Node
      BY <1>s, <1>k, Lengths
    <2>2. /\ Len(chain') = k - 1
          /\ \A i \in 1 .. k - 1 : chain'[i] = chain[i + 1]
      BY <1>0, <1>s, <1>k, TailOf
    <2> QED
      BY <2>1, <2>2 DEF Distinct
  <1>r. UNCHANGED <<Running, cpc>>
    BY <1>0 DEF Running
  <1>1. CASE k = 1
    <2>1. Queued = << >> /\ Queued' = << >>
      BY <1>1, <1>b, <1>t, <1>k, QueuedIs, QueuedIsNext DEF QueuedShape
    <2> QED
      BY <2>1, <1>r, <1>0 DEF Todo!absVars
  <1>2. CASE k # 1
    <2>q. /\ Queued \in Seq(Entries) /\ Queued' \in Seq(Entries)
          /\ Len(Queued) = k - 1 /\ Len(Queued') = k - 2
          /\ \A i \in 1 .. k - 1 :
               Queued[i] = [job |-> data[chain[i + 1]], by |-> Adder(chain[i + 1])]
          /\ \A i \in 1 .. k - 2 :
               Queued'[i] = [job |-> data'[chain'[i + 1]], by |-> Adder(chain[i + 1])']
      <3>1. k >= 1 /\ k - 1 >= 1 /\ (k - 1) - 1 = k - 2
        BY <1>2, <1>t, <1>s
      <3>2. /\ Queued \in Seq(Entries)
            /\ Len(Queued) = k - 1
            /\ \A i \in 1 .. k - 1 :
                 Queued[i] = [job |-> data[chain[i + 1]], by |-> Adder(chain[i + 1])]
        BY <3>1, <1>t, <1>k, QueuedIs DEF QueuedShape
      <3>3. /\ Queued' \in Seq(Entries)
            /\ Len(Queued') = Len(chain') - 1
            /\ \A i \in 1 .. Len(chain') - 1 :
                 Queued'[i] = [job |-> data'[chain'[i + 1]], by |-> Adder(chain[i + 1])']
        BY <3>1, <1>t, <1>b, QueuedIsNext DEF QueuedShape
      <3> QED
        BY <3>1, <3>2, <3>3, <1>b
    <2>1. \A i \in 1 .. k - 2 : Queued'[i] = Queued[i + 1]
      <3> SUFFICES ASSUME NEW i \in 1 .. k - 2 PROVE Queued'[i] = Queued[i + 1]
        OBVIOUS
      <3>1. /\ i + 1 \in 1 .. k - 1 /\ chain'[i + 1] = chain[(i + 1) + 1]
            /\ (i + 1) + 1 \in 1 .. k /\ (i + 1) + 1 # 1 /\ 1 \in 1 .. k
        BY <1>b, <1>s, <1>t
      <3>2. Adder(chain[i + 1])' = Adder(chain[(i + 1) + 1])
        BY <3>1, <1>0 DEF Adder
      <3>3. chain[(i + 1) + 1] # f
        BY <3>1, <1>b, <1>s
      <3>4. data'[chain[(i + 1) + 1]] = data[chain[(i + 1) + 1]]
        BY <3>1, <3>3, <1>0, <1>b, <1>s DEF TypeOK
      <3> QED
        BY <3>1, <3>2, <3>4, <2>q
    <2>2. Queued' = Tail(Queued) /\ Queued # << >>
      BY <2>1, <2>q, <1>2, <1>t, <1>s, IsTail
    <2> QED
      BY <2>2, <1>r, <1>0 DEF Todo!Discard, Closing
  <1> QED
    BY <1>1, <1>2

\* Every step of the list is a step of the queue or is not seen there.
LEMMA NextRefines ==
    ASSUME IInv, [Next]_vars
    PROVE  [Todo!Next]_(Todo!absVars)
  <1> USE DEF IInv
  <1>1. ASSUME NEW p \in Producer, NEW job \in Job, PutAlloc(p, job)
        PROVE  UNCHANGED Todo!absVars
    BY <1>1, PutAllocRefines DEF Todo!absVars
  <1>2. ASSUME NEW p \in Producer, PutSwap(p) PROVE Todo!Next
    BY <1>2, PutSwapRefines DEF Todo!Next
  <1>3. ASSUME NEW p \in Producer, PutLink(p) PROVE Todo!Next
    BY <1>3, PutLinkRefines DEF Todo!Next
  <1>4. CASE GetAdvance
    BY <1>4, GetAdvanceRefines DEF Todo!Next
  <1>5. CASE GetFree
    BY <1>5, GetFreeRefines DEF Todo!absVars, Closing
  <1>6. CASE GetEmpty
    BY <1>6, GetEmptyRefines DEF Todo!Next
  <1>7. CASE DestroyNext
    BY <1>7, DestroyNextRefines DEF Todo!Next
  <1>8. ASSUME UNCHANGED <<data, first, pc, proposal, chain>> PROVE UNCHANGED Queued
    <2>1. \A i \in 1 .. Len(chain) - 1 : Adder(chain[i + 1])' = Adder(chain[i + 1])
      BY <1>8 DEF Adder
    <2> QED
      BY <2>1, <1>8 DEF Queued
  <1>9. CASE DoTodos
    BY <1>8, <1>9 DEF DoTodos, Consume, Todo!Next, Todo!Drain, Running, Closing
  <1>10. CASE GetSome
    BY <1>8, <1>10 DEF GetSome, Consume, Todo!absVars, Running, Closing
  <1>11. CASE RunJob
    <2>1. data[first] \in Job /\ cpc = "run" /\ cpc' = "get"
      BY <1>11 DEF RunJob, Consume, Consumer
    <2> QED
      BY <2>1, <1>8, <1>11, MpscAssumption
      DEF RunJob, Todo!Next, Todo!Finish, Running, Closing
  <1>12. CASE Destroy
    <2>1. \A i \in DOMAIN Queued : Todo!Landed(Queued[i])
      <3>1. \A n : Adder(n) = NULL
        BY <1>12 DEF Destroy, Adder
      <3> QED
        BY <3>1 DEF Todo!Landed, Queued
    <2> QED
      BY <2>1, <1>8, <1>12
      DEF Destroy, Consume, Todo!Next, Todo!Close, Running, Closing
  <1>13. CASE DestroyDone
    BY <1>8, <1>13 DEF DestroyDone, Consume, Todo!absVars, Running, Closing
  <1>14. CASE UNCHANGED vars
    BY <1>8, <1>14 DEF vars, Todo!absVars, Running
  <1> QED
    BY <1>1, <1>2, <1>3, <1>4, <1>5, <1>6, <1>7, <1>9, <1>10, <1>11, <1>12,
       <1>13, <1>14 DEF Next, Put, Get

\* include/mpsc.h implements the queue of todos, for any number of threads.
THEOREM Refinement == Spec => RefinesTodoQueue
  <1> QED
    BY InitRefines, NextRefines, Invariance, PTL DEF Spec, RefinesTodoQueue, Todo!Spec
=============================================================================
