-------------------------- MODULE RenderingProofs --------------------------
(***************************************************************************)
(* What the program writes as a JSON string is read back as the same text, *)
(* and what it reads of \u escapes is what UTF-16 means by them, for every *)
(* text and every row of units.                                            *)
(*                                                                         *)
(* Both directions are loops over a string, and the models of them         *)
(* functions that are defined from the last position down (DescentExists). *)
(* The argument for each goes down the same way (Downwards): what is left  *)
(* of the string at the place of the k-th character is read as the code    *)
(* points of what is left of the text there.                               *)
(***************************************************************************)
EXTENDS Rendering, SequenceTheorems, FiniteSetTheorems, WellFoundedInduction, TLAPS

------------------------------------------------------------------------------
(***************************************************************************)
(* Functions that are defined from their last argument down, as the loops  *)
(* over a text are.                                                        *)
(***************************************************************************)

LEMMA MinimumExists ==
  ASSUME NEW S \in SUBSET Nat, S # {}
  PROVE  \E k \in S : \A m \in S : k <= m
<1>1. PICK k \in S : \A m \in S : <<m, k>> \notin OpToRel(<, Nat)
  BY WFMin, NatLessThanWellFounded, Zenon
<1>2. ASSUME NEW m \in S PROVE k <= m
  <2>1. ~(m < k)
    BY <1>1, Zenon DEF OpToRel
  <2> QED
    BY <2>1
<1> QED
  BY <1>2

(* A set of positions that contains each one all later ones of which it contains. *)
LEMMA Downwards ==
  ASSUME NEW n \in Nat, NEW S \in SUBSET (1..n),
         \A k \in 1..n : (\A j \in k+1..n : j \in S) => k \in S
  PROVE  S = 1..n
<1> DEFINE bad == {d \in 0..n-1 : n - d \notin S}
<1>1. SUFFICES ASSUME bad # {} PROVE FALSE
  <2>1. ASSUME NEW k \in 1..n PROVE k \in S
    <3>1. n - k \in 0..n-1 /\ n - (n - k) = k
      OBVIOUS
    <3> QED
      BY <1>1, <3>1
  <2> QED
    BY <2>1
<1>2. PICK d \in bad : \A e \in bad : d <= e
  <2>1. bad \in SUBSET Nat
    OBVIOUS
  <2> HIDE DEF bad
  <2> QED
    BY <1>1, <2>1, MinimumExists
<1>3. d \in 0..n-1 /\ n - d \in 1..n /\ n - d \notin S
  OBVIOUS
<1>4. ASSUME NEW j \in (n-d)+1..n PROVE j \in S
  <2>1. n - j \in 0..n-1 /\ n - j < d /\ n - (n - j) = j
    BY <1>3
  <2>2. n - j \notin bad
    BY <1>2, <1>3, <2>1
  <2> QED
    BY <2>1, <2>2
<1> QED
  BY <1>3, <1>4

(* f is the function that has the value base[k] at the stops, and elsewhere one
   made from its value at a later place. *)
Descends(f, n, stops, base, made, next) ==
  \A k \in 1..n : f[k] = IF k \in stops THEN base[k] ELSE made[k][f[next[k]]]

(* The parts of such a definition. *)
Descent(V, n, stops, base, made, next) ==
  /\ n \in Nat
  /\ base \in [1..n -> V] /\ made \in [1..n -> [V -> V]]
  /\ \A k \in 1..n : k \in stops \/ next[k] \in k+1..n

LEMMA DescentExists ==
  ASSUME NEW V, NEW n, NEW stops, NEW base, NEW made, NEW next,
         Descent(V, n, stops, base, made, next)
  PROVE  \E f \in [1..n -> V] : Descends(f, n, stops, base, made, next)
<1> USE DEF Descent
<1> DEFINE At(f, k) == f[k] = IF k \in stops THEN base[k] ELSE made[k][f[next[k]]]
           From(m) == \E f \in [m..n -> V] : \A k \in m..n : At(f, k)
           S == {m \in 1..n+1 : From(m)}
<1>1. n \in Nat
  OBVIOUS
<1>2. n + 1 \in S
  <2>1. From(n + 1)
    <3>1. PICK f : f = [k \in n+1..n |-> base[k]]
      OBVIOUS
    <3>2. f \in [n+1..n -> V] /\ \A k \in n+1..n : At(f, k)
      BY <1>1, <3>1
    <3> HIDE DEF At
    <3> QED
      BY <3>2, Zenon
  <2> QED
    BY <1>1, <2>1
<1>3. ASSUME NEW m \in 1..n, m + 1 \in S PROVE m \in S
  <2>1. PICK g \in [m+1..n -> V] : \A k \in m+1..n : At(g, k)
    BY <1>3
  <2>2. PICK v : v = IF m \in stops THEN base[m] ELSE made[m][g[next[m]]]
    OBVIOUS
  <2>3. v \in V
    <3>1. CASE m \in stops
      BY <2>2, <3>1
    <3>2. CASE m \notin stops
      <4>1. g[next[m]] \in V
        BY <2>1, <3>2
      <4>2. made[m] \in [V -> V]
        OBVIOUS
      <4> QED
        BY <2>2, <3>2, <4>1, <4>2
    <3> QED
      BY <3>1, <3>2
  <2>4. PICK f : f = [k \in m..n |-> IF k = m THEN v ELSE g[k]]
    OBVIOUS
  <2>5. \A k \in m+1..n : k \in m..n /\ k # m /\ f[k] = g[k]
    BY <1>1, <2>4
  <2>6. f \in [m..n -> V]
    <3>1. \A k \in m..n : k = m \/ k \in m+1..n
      BY <1>1
    <3>2. \A k \in m..n : f[k] \in V
      BY <2>1, <2>3, <2>4, <2>5, <3>1
    <3> QED
      BY <2>4, <3>2
  <2>7. ASSUME NEW k \in m..n PROVE At(f, k)
    <3>1. k \in stops \/ next[k] \in k+1..n
      BY <1>1
    <3>2. k \in stops \/ f[next[k]] = g[next[k]]
      BY <1>1, <2>5, <3>1
    <3>3. CASE k = m
      BY <2>2, <2>4, <3>2, <3>3
    <3>4. CASE k # m
      <4>1. k \in m+1..n
        BY <1>1, <3>4
      <4>2. At(g, k) /\ f[k] = g[k]
        BY <2>1, <2>5, <4>1
      <4> QED
        BY <3>2, <4>2
    <3> QED
      BY <3>3, <3>4
  <2>8. From(m)
    <3> HIDE DEF At
    <3> QED
      BY <2>6, <2>7, Zenon
  <2> HIDE DEF From
  <2> QED
    BY <1>1, <2>8
<1>4. \A m \in 1..n+1 : (\A j \in m+1..n+1 : j \in S) => m \in S
  <2> SUFFICES ASSUME NEW m \in 1..n+1, \A j \in m+1..n+1 : j \in S PROVE m \in S
    OBVIOUS
  <2>1. CASE m = n + 1
    BY <1>2, <2>1
  <2>2. CASE m # n + 1
    <3>1. m \in 1..n /\ m + 1 \in m+1..n+1
      BY <1>1, <2>2
    <3> HIDE DEF S
    <3> QED
      BY <1>3, <3>1
  <2> QED
    BY <2>1, <2>2
<1>5. S = 1..n+1
  <2>1. S \in SUBSET (1..n+1) /\ n + 1 \in Nat
    BY <1>1
  <2> HIDE DEF S
  <2> QED
    BY <1>4, <2>1, Downwards
<1>6. From(1)
  <2>1. 1 \in 1..n+1
    BY <1>1
  <2>2. 1 \in S
    BY <1>5, <2>1, Zenon
  <2> QED
    BY <2>2
<1> QED
  BY <1>6 DEF Descends

------------------------------------------------------------------------------
(***************************************************************************)
(* UTF-8: the table of the code's lengths and the place values of the      *)
(* standard tell the same sequences from the rest.                         *)
(***************************************************************************)

Texts == Seq(1..255)

(* The sequences of two, three and four bytes, told by the bytes. *)
Two(b, c) == b \in 194..223 /\ c \in 128..191
Three(b, c, d) ==
  /\ \/ b = 224 /\ c \in 160..191
     \/ b = 237 /\ c \in 128..159
     \/ b \in 225..239 /\ b # 237 /\ c \in 128..191
  /\ d \in 128..191
Four(b, c, d, e) ==
  /\ \/ b = 240 /\ c \in 144..191
     \/ b = 244 /\ c \in 128..143
     \/ b \in 241..243 /\ c \in 128..191
  /\ d \in 128..191 /\ e \in 128..191

(* The bytes of a character of n bytes at k. *)
CharAt(t, k, n) ==
  /\ k + n - 1 <= Len(t)
  /\ \/ n = 1 /\ t[k] < 128
     \/ n = 2 /\ Two(t[k], t[k + 1])
     \/ n = 3 /\ Three(t[k], t[k + 1], t[k + 2])
     \/ n = 4 /\ Four(t[k], t[k + 1], t[k + 2], t[k + 3])

(* The first byte of a character tells its length. *)
LEMMA LengthByLead ==
  ASSUME NEW t, NEW k, NEW n \in 1..4, CharAt(t, k, n), t[k] \in 1..255
  PROVE  /\ n = 1 => t[k] < 128
         /\ n = 2 => t[k] \in 194..223
         /\ n = 3 => t[k] \in 224..239
         /\ n = 4 => t[k] \in 240..244
<1>1. CASE n = 1
  BY <1>1 DEF CharAt
<1>2. CASE n = 2
  BY <1>2 DEF CharAt, Two
<1>3. CASE n = 3
  BY <1>3 DEF CharAt, Three
<1>4. CASE n = 4
  BY <1>4 DEF CharAt, Four
<1> QED
  BY <1>1, <1>2, <1>3, <1>4

LEMMA OneLength ==
  ASSUME NEW t, NEW k, NEW m \in 1..4, NEW n \in 1..4, CharAt(t, k, m), CharAt(t, k, n),
         t[k] \in 1..255
  PROVE  m = n
<1>1. /\ m = 1 => t[k] < 128
      /\ m = 2 => t[k] \in 194..223
      /\ m = 3 => t[k] \in 224..239
      /\ m = 4 => t[k] \in 240..244
  BY LengthByLead
<1>2. /\ n = 1 => t[k] < 128
      /\ n = 2 => t[k] \in 194..223
      /\ n = 3 => t[k] \in 224..239
      /\ n = 4 => t[k] \in 240..244
  BY LengthByLead
<1> QED
  BY <1>1, <1>2

LEMMA LeadsAre ==
  ASSUME NEW x
  PROVE  x \in Leads <=>
    \/ x = <<194..223, 128..191, 2>>
    \/ x = <<{224}, 160..191, 3>>
    \/ x = <<225..236, 128..191, 3>>
    \/ x = <<{237}, 128..159, 3>>
    \/ x = <<238..239, 128..191, 3>>
    \/ x = <<{240}, 144..191, 4>>
    \/ x = <<241..243, 128..191, 4>>
    \/ x = <<{244}, 128..143, 4>>
<1> DEFINE A == <<194..223, 128..191, 2>>  B == <<{224}, 160..191, 3>>
           C == <<225..236, 128..191, 3>>  D == <<{237}, 128..159, 3>>
           E == <<238..239, 128..191, 3>>  F == <<{240}, 144..191, 4>>
           G == <<241..243, 128..191, 4>>  H == <<{244}, 128..143, 4>>
<1>1. Leads = {A, B, C, D, E, F, G, H}
  BY Zenon DEF Leads, Continuation
<1> HIDE DEF A, B, C, D, E, F, G, H
<1>2. x \in Leads <=>
        \/ x = A
        \/ x = B
        \/ x = C
        \/ x = D
        \/ x = E
        \/ x = F
        \/ x = G
        \/ x = H
  BY <1>1
<1> QED
  BY <1>2 DEF A, B, C, D, E, F, G, H

LEMMA LeadsThere ==
  /\ <<194..223, 128..191, 2>> \in Leads
  /\ <<{224}, 160..191, 3>> \in Leads
  /\ <<225..236, 128..191, 3>> \in Leads
  /\ <<{237}, 128..159, 3>> \in Leads
  /\ <<238..239, 128..191, 3>> \in Leads
  /\ <<{240}, 144..191, 4>> \in Leads
  /\ <<241..243, 128..191, 4>> \in Leads
  /\ <<{244}, 128..143, 4>> \in Leads
  BY DEF Leads, Continuation

Fitting(t, k, lead) ==
  /\ t[k] \in lead[1] /\ k + lead[3] - 1 <= Len(t)
  /\ t[k + 1] \in lead[2]
  /\ \A m \in k+2..k+lead[3]-1 : t[m] \in Continuation

LEMMA BytesOf ==
  ASSUME NEW t \in Texts
  PROVE  Len(t) \in Nat /\ \A k \in 1..Len(t) : t[k] \in 1..255
  BY ElementOfSeq, LenProperties DEF Texts

LEMMA FittingIsChar ==
  ASSUME NEW t \in Texts, NEW k \in 1..Len(t), NEW lead \in Leads, Fitting(t, k, lead)
  PROVE  lead[3] \in {2, 3, 4} /\ CharAt(t, k, lead[3])
<1>1. Len(t) \in Nat
  BY BytesOf
<1>2. PICK n : n = lead[3]
  OBVIOUS
<1>3. t[k] \in lead[1] /\ k + n - 1 <= Len(t) /\ t[k + 1] \in lead[2]
  BY <1>2 DEF Fitting
<1>4. \A m \in k+2..k+n-1 : t[m] \in 128..191
  BY <1>2 DEF Fitting, Continuation
<1>5. n = 3 => t[k + 2] \in 128..191
  BY <1>1, <1>4
<1>6. n = 4 => t[k + 2] \in 128..191 /\ t[k + 3] \in 128..191
  <2>1. n = 4 => k + 2 \in k+2..k+n-1 /\ k + 3 \in k+2..k+n-1
    BY <1>1
  <2> QED
    BY <1>4, <2>1
<1>7. \/ n = 2 /\ Two(t[k], t[k + 1])
      \/ n = 3 /\ Three(t[k], t[k + 1], t[k + 2])
      \/ n = 4 /\ Four(t[k], t[k + 1], t[k + 2], t[k + 3])
  <2>1. CASE lead = <<194..223, 128..191, 2>>
    BY <1>2, <1>3, <2>1 DEF Two
  <2>2. CASE lead = <<{224}, 160..191, 3>>
    BY <1>2, <1>3, <1>5, <2>2 DEF Three
  <2>3. CASE lead = <<225..236, 128..191, 3>>
    <3>1. n = 3 /\ t[k] \in 225..236 /\ t[k + 1] \in 128..191
      BY <1>2, <1>3, <2>3
    <3>2. t[k + 2] \in 128..191 /\ t[k] \in 225..239 /\ t[k] # 237
      BY <1>5, <3>1
    <3> QED
      BY <3>1, <3>2 DEF Three
  <2>4. CASE lead = <<{237}, 128..159, 3>>
    BY <1>2, <1>3, <1>5, <2>4 DEF Three
  <2>5. CASE lead = <<238..239, 128..191, 3>>
    <3>1. n = 3 /\ t[k] \in 238..239 /\ t[k + 1] \in 128..191
      BY <1>2, <1>3, <2>5
    <3>2. t[k + 2] \in 128..191 /\ t[k] \in 225..239 /\ t[k] # 237
      BY <1>5, <3>1
    <3> QED
      BY <3>1, <3>2 DEF Three
  <2>6. CASE lead = <<{240}, 144..191, 4>>
    BY <1>2, <1>3, <1>6, <2>6 DEF Four
  <2>7. CASE lead = <<241..243, 128..191, 4>>
    BY <1>2, <1>3, <1>6, <2>7 DEF Four
  <2>8. CASE lead = <<{244}, 128..143, 4>>
    BY <1>2, <1>3, <1>6, <2>8 DEF Four
  <2> QED
    BY <2>1, <2>2, <2>3, <2>4, <2>5, <2>6, <2>7, <2>8, LeadsAre, Zenon
<1> QED
  BY <1>2, <1>3, <1>7 DEF CharAt

LEMMA LeadFits ==
  ASSUME NEW t \in Texts, NEW k \in 1..Len(t), NEW lead \in Leads, NEW n \in {2, 3, 4},
         lead[3] = n, t[k] \in lead[1], t[k + 1] \in lead[2], k + n - 1 <= Len(t),
         n > 2 => t[k + 2] \in 128..191, n > 3 => t[k + 3] \in 128..191
  PROVE  \E l \in Leads : Fitting(t, k, l)
<1>1. Len(t) \in Nat /\ k \in Nat
  BY BytesOf
<1>2. ASSUME NEW m \in k+2..k+n-1 PROVE t[m] \in Continuation
  <2>1. CASE n = 2
    BY <1>1, <2>1
  <2>2. CASE n = 3
    <3>1. m = k + 2
      BY <1>1, <2>2
    <3> QED
      BY <2>2, <3>1 DEF Continuation
  <2>3. CASE n = 4
    <3>1. m = k + 2 \/ m = k + 3
      BY <1>1, <2>3
    <3>2. t[k + 2] \in 128..191 /\ t[k + 3] \in 128..191
      BY <2>3
    <3> QED
      BY <3>1, <3>2 DEF Continuation
  <2> QED
    BY <2>1, <2>2, <2>3
<1>3. Fitting(t, k, lead)
  BY <1>2 DEF Fitting
<1> QED
  BY <1>3, Zenon

LEMMA CharIsFitting ==
  ASSUME NEW t \in Texts, NEW k \in 1..Len(t), NEW n \in {2, 3, 4}, CharAt(t, k, n)
  PROVE  \E lead \in Leads : Fitting(t, k, lead)
<1>1. Len(t) \in Nat /\ k \in Nat
  BY BytesOf
<1>2. CASE n = 2
  <2>1. k + 1 <= Len(t) /\ Two(t[k], t[k + 1])
        
    BY <1>1, <1>2 DEF CharAt, Two
  <2>2. \/ t[k] \in 194..223 /\ t[k + 1] \in 128..191
    BY <2>1 DEF Two
  <2>3. CASE t[k] \in 194..223 /\ t[k + 1] \in 128..191
    <3>1. PICK lead : lead = <<194..223, 128..191, 2>>
      OBVIOUS
    <3>2. lead \in Leads
      BY <3>1, LeadsThere
    <3>3. lead[3] = 2 /\ t[k] \in lead[1] /\ t[k + 1] \in lead[2]
      BY <2>3, <3>1
    <3>4. k + 2 - 1 <= Len(t) /\ (2 > 2 => t[k + 2] \in 128..191)
            /\ (2 > 3 => t[k + 3] \in 128..191)
      BY <1>1, <2>1
    <3> QED
      BY <2>1, <3>2, <3>3, <3>4, LeadFits
  <2> QED
    BY <2>2, <2>3
<1>3. CASE n = 3
  <2>1. k + 2 <= Len(t) /\ Three(t[k], t[k + 1], t[k + 2])
         /\ t[k + 2] \in 128..191
    BY <1>1, <1>3 DEF CharAt, Three
  <2>2. \/ t[k] \in {224} /\ t[k + 1] \in 160..191
        \/ t[k] \in 225..236 /\ t[k + 1] \in 128..191
        \/ t[k] \in {237} /\ t[k + 1] \in 128..159
        \/ t[k] \in 238..239 /\ t[k + 1] \in 128..191
    BY <2>1 DEF Three
  <2>3. CASE t[k] \in {224} /\ t[k + 1] \in 160..191
    <3>1. PICK lead : lead = <<{224}, 160..191, 3>>
      OBVIOUS
    <3>2. lead \in Leads
      BY <3>1, LeadsThere
    <3>3. lead[3] = 3 /\ t[k] \in lead[1] /\ t[k + 1] \in lead[2]
      BY <2>3, <3>1
    <3>4. k + 3 - 1 <= Len(t) /\ (3 > 2 => t[k + 2] \in 128..191)
            /\ (3 > 3 => t[k + 3] \in 128..191)
      BY <1>1, <2>1
    <3> QED
      BY <2>1, <3>2, <3>3, <3>4, LeadFits
  <2>4. CASE t[k] \in 225..236 /\ t[k + 1] \in 128..191
    <3>1. PICK lead : lead = <<225..236, 128..191, 3>>
      OBVIOUS
    <3>2. lead \in Leads
      BY <3>1, LeadsThere
    <3>3. lead[3] = 3 /\ t[k] \in lead[1] /\ t[k + 1] \in lead[2]
      BY <2>4, <3>1
    <3>4. k + 3 - 1 <= Len(t) /\ (3 > 2 => t[k + 2] \in 128..191)
            /\ (3 > 3 => t[k + 3] \in 128..191)
      BY <1>1, <2>1
    <3> QED
      BY <2>1, <3>2, <3>3, <3>4, LeadFits
  <2>5. CASE t[k] \in {237} /\ t[k + 1] \in 128..159
    <3>1. PICK lead : lead = <<{237}, 128..159, 3>>
      OBVIOUS
    <3>2. lead \in Leads
      BY <3>1, LeadsThere
    <3>3. lead[3] = 3 /\ t[k] \in lead[1] /\ t[k + 1] \in lead[2]
      BY <2>5, <3>1
    <3>4. k + 3 - 1 <= Len(t) /\ (3 > 2 => t[k + 2] \in 128..191)
            /\ (3 > 3 => t[k + 3] \in 128..191)
      BY <1>1, <2>1
    <3> QED
      BY <2>1, <3>2, <3>3, <3>4, LeadFits
  <2>6. CASE t[k] \in 238..239 /\ t[k + 1] \in 128..191
    <3>1. PICK lead : lead = <<238..239, 128..191, 3>>
      OBVIOUS
    <3>2. lead \in Leads
      BY <3>1, LeadsThere
    <3>3. lead[3] = 3 /\ t[k] \in lead[1] /\ t[k + 1] \in lead[2]
      BY <2>6, <3>1
    <3>4. k + 3 - 1 <= Len(t) /\ (3 > 2 => t[k + 2] \in 128..191)
            /\ (3 > 3 => t[k + 3] \in 128..191)
      BY <1>1, <2>1
    <3> QED
      BY <2>1, <3>2, <3>3, <3>4, LeadFits
  <2> QED
    BY <2>2, <2>3, <2>4, <2>5, <2>6
<1>4. CASE n = 4
  <2>1. k + 3 <= Len(t) /\ Four(t[k], t[k + 1], t[k + 2], t[k + 3])
         /\ t[k + 2] \in 128..191 /\ t[k + 3] \in 128..191
    BY <1>1, <1>4 DEF CharAt, Four
  <2>2. \/ t[k] \in {240} /\ t[k + 1] \in 144..191
        \/ t[k] \in 241..243 /\ t[k + 1] \in 128..191
        \/ t[k] \in {244} /\ t[k + 1] \in 128..143
    BY <2>1 DEF Four
  <2>3. CASE t[k] \in {240} /\ t[k + 1] \in 144..191
    <3>1. PICK lead : lead = <<{240}, 144..191, 4>>
      OBVIOUS
    <3>2. lead \in Leads
      BY <3>1, LeadsThere
    <3>3. lead[3] = 4 /\ t[k] \in lead[1] /\ t[k + 1] \in lead[2]
      BY <2>3, <3>1
    <3>4. k + 4 - 1 <= Len(t) /\ (4 > 2 => t[k + 2] \in 128..191)
            /\ (4 > 3 => t[k + 3] \in 128..191)
      BY <1>1, <2>1
    <3> QED
      BY <2>1, <3>2, <3>3, <3>4, LeadFits
  <2>4. CASE t[k] \in 241..243 /\ t[k + 1] \in 128..191
    <3>1. PICK lead : lead = <<241..243, 128..191, 4>>
      OBVIOUS
    <3>2. lead \in Leads
      BY <3>1, LeadsThere
    <3>3. lead[3] = 4 /\ t[k] \in lead[1] /\ t[k + 1] \in lead[2]
      BY <2>4, <3>1
    <3>4. k + 4 - 1 <= Len(t) /\ (4 > 2 => t[k + 2] \in 128..191)
            /\ (4 > 3 => t[k + 3] \in 128..191)
      BY <1>1, <2>1
    <3> QED
      BY <2>1, <3>2, <3>3, <3>4, LeadFits
  <2>5. CASE t[k] \in {244} /\ t[k + 1] \in 128..143
    <3>1. PICK lead : lead = <<{244}, 128..143, 4>>
      OBVIOUS
    <3>2. lead \in Leads
      BY <3>1, LeadsThere
    <3>3. lead[3] = 4 /\ t[k] \in lead[1] /\ t[k + 1] \in lead[2]
      BY <2>5, <3>1
    <3>4. k + 4 - 1 <= Len(t) /\ (4 > 2 => t[k + 2] \in 128..191)
            /\ (4 > 3 => t[k + 3] \in 128..191)
      BY <1>1, <2>1
    <3> QED
      BY <2>1, <3>2, <3>3, <3>4, LeadFits
  <2> QED
    BY <2>2, <2>3, <2>4, <2>5
<1> QED
  BY <1>2, <1>3, <1>4

LEMMA LengthIs ==
  ASSUME NEW t \in Texts, NEW k \in 1..Len(t)
  PROVE  /\ SequenceLen(t, k) \in 0..4
         /\ \A n \in 1..4 : SequenceLen(t, k) = n <=> CharAt(t, k, n)
<1> DEFINE fits == {lead \in Leads : Fitting(t, k, lead)}
<1>1. SequenceLen(t, k) = IF t[k] < 128 THEN 1
                          ELSE IF fits = {} THEN 0 ELSE (CHOOSE lead \in fits : TRUE)[3]
  BY Zenon DEF SequenceLen, Fitting
<1>2. t[k] \in 1..255 /\ Len(t) \in Nat
  BY BytesOf
<1> HIDE DEF fits
<1>3. CASE t[k] < 128
  <2>1. SequenceLen(t, k) = 1 /\ CharAt(t, k, 1)
    BY <1>1, <1>2, <1>3 DEF CharAt
  <2> QED
    BY <1>2, <2>1, OneLength
<1>4. CASE ~(t[k] < 128) /\ fits = {}
  <2>1. SequenceLen(t, k) = 0
    BY <1>1, <1>4
  <2>2. ASSUME NEW n \in 1..4, CharAt(t, k, n) PROVE FALSE
    <3>1. n # 1
      BY <1>4, <2>2 DEF CharAt
    <3> QED
      BY <1>4, <2>2, <3>1, CharIsFitting DEF fits
  <2> QED
    BY <2>1, <2>2
<1>5. CASE ~(t[k] < 128) /\ fits # {}
  <2>1. PICK lead \in fits : SequenceLen(t, k) = lead[3]
    BY <1>1, <1>5
  <2>2. lead \in Leads /\ Fitting(t, k, lead)
    BY <2>1 DEF fits
  <2>3. lead[3] \in {2, 3, 4} /\ CharAt(t, k, lead[3])
    BY <2>2, FittingIsChar
  <2> QED
    BY <1>2, <2>1, <2>3, OneLength
<1> QED
  BY <1>3, <1>4, <1>5

(* What the bytes of a character are worth. *)
WorthTwo(a, b) == (a - 192) * 64 + (b - 128)
WorthThree(a, b, c) == (a - 224) * 4096 + (b - 128) * 64 + (c - 128)
WorthFour(a, b, c, d) ==
  (a - 240) * 262144 + (b - 128) * 4096 + (c - 128) * 64 + (d - 128)

Weighed(t, k, n) ==
  IF n = 1 THEN t[k]
  ELSE IF n = 2 THEN WorthTwo(t[k], t[k + 1])
  ELSE IF n = 3 THEN WorthThree(t[k], t[k + 1], t[k + 2])
  ELSE WorthFour(t[k], t[k + 1], t[k + 2], t[k + 3])

LEMMA TwoIsShortest ==
  ASSUME NEW a \in 1..255, NEW b \in 1..255
  PROVE  /\ Two(a, b) <=>
              /\ a \in 192..223 /\ b \in 128..191
              /\ 128 <= WorthTwo(a, b) /\ WorthTwo(a, b) <= 1114111
              /\ WorthTwo(a, b) \notin 55296..57343
         /\ Two(a, b) => WorthTwo(a, b) \in Nat
  BY DEF Two, WorthTwo

LEMMA ThreeIsShortest ==
  ASSUME NEW a \in 1..255, NEW b \in 1..255, NEW c \in 1..255
  PROVE  /\ Three(a, b, c) <=>
              /\ a \in 224..239 /\ b \in 128..191 /\ c \in 128..191
              /\ 2048 <= WorthThree(a, b, c) /\ WorthThree(a, b, c) <= 1114111
              /\ WorthThree(a, b, c) \notin 55296..57343
         /\ Three(a, b, c) => WorthThree(a, b, c) \in Nat
  BY DEF Three, WorthThree

LEMMA FourIsShortest ==
  ASSUME NEW a \in 1..255, NEW b \in 1..255, NEW c \in 1..255, NEW d \in 1..255
  PROVE  /\ Four(a, b, c, d) <=>
              /\ a \in 240..247 /\ b \in 128..191 /\ c \in 128..191 /\ d \in 128..191
              /\ 65536 <= WorthFour(a, b, c, d) /\ WorthFour(a, b, c, d) <= 1114111
              /\ WorthFour(a, b, c, d) \notin 55296..57343
         /\ Four(a, b, c, d) => WorthFour(a, b, c, d) \in Nat
  BY DEF Four, WorthFour

LEMMA WorthIs ==
  ASSUME NEW t \in Texts, NEW k \in 1..Len(t), NEW n \in 1..4, k + n - 1 <= Len(t)
  PROVE  /\ Worth(SubSeq(t, k, k + n - 1)) = IF CharAt(t, k, n) THEN Weighed(t, k, n) ELSE -1
         /\ CharAt(t, k, n) => Weighed(t, k, n) \in Nat
<1>1. Len(t) \in Nat /\ k \in Nat /\ \A m \in 1..Len(t) : t[m] \in 1..255
  BY BytesOf
<1>2. PICK s : s = SubSeq(t, k, k + n - 1)
  OBVIOUS
<1>3. s \in Seq(1..255) /\ Len(s) = n /\ \A i \in 1..n : s[i] = t[k + i - 1]
  <2>1. \A i \in k..k+n-1 : t[i] \in 1..255
    BY <1>1
  <2>2. k \in Int /\ k + n - 1 \in Int
    BY <1>1
  <2>3. /\ s \in Seq(1..255)
        /\ Len(s) = IF k <= k+n-1 THEN k+n-1-k+1 ELSE 0
        /\ \A i \in 1 .. k+n-1-k+1 : s[i] = t[k+i-1]
    BY <1>2, <2>1, <2>2, SubSeqProperties
  <2>4. k <= k+n-1 /\ k+n-1-k+1 = n
    BY <1>1
  <2> QED
    BY <2>3, <2>4
<1>4. CASE n = 1
  <2>1. PICK a \in 1..255 : a = t[k] /\ s[1] = a
    <3>1. t[k] \in 1..255 /\ s[1] = t[k]
      BY <1>1, <1>3, <1>4
    <3> QED
      BY <3>1
  <2>2. LeadFrom[1] = 0 /\ LeadTo[1] = 127 /\ LeastOf[1] = 1
    BY DEF LeadFrom, LeadTo, LeastOf
  <2>3. Place[1] = 1
    BY DEF Place
  <2>4. ByPlace(s) = (a - LeadFrom[1]) * Place[1] + 0 + 0 + 0
    BY <1>3, <1>4, <2>1 DEF ByPlace
  <2>5. ByPlace(s) = a
    <3>1. (a - LeadFrom[1]) * Place[1] = (a - 0) * 1
      BY <2>2, <2>3
    <3> QED
      BY <2>4, <3>1
  <2>6. Worth(s) = IF /\ a \in LeadFrom[1]..LeadTo[1] /\ \A i \in 2..1 : s[i] \in 128..191
                      /\ LeastOf[1] <= a /\ a <= 1114111
                      /\ a \notin 55296..57343
                   THEN a ELSE -1
    BY <1>3, <1>4, <2>1, <2>5 DEF Worth
  <2>7. CharAt(t, k, n) <=> a < 128
    BY <1>1, <1>4, <2>1 DEF CharAt
  <2>8. Weighed(t, k, n) = a
    BY <1>4, <2>1 DEF Weighed
  <2>9. Worth(s) = IF a < 128 THEN a ELSE -1
    <3>1. \A i \in 2..1 : s[i] \in 128..191
      OBVIOUS
    <3>2. a \in 0..127 /\ 1 <= a /\ a <= 1114111 /\ a \notin 55296..57343 <=> a < 128
      OBVIOUS
    <3> QED
      BY <2>2, <2>6, <3>1, <3>2
  <2> QED
    BY <1>2, <2>7, <2>8, <2>9
<1>5. CASE n = 2
  <2>1. PICK a \in 1..255 : a = t[k] /\ s[1] = a
    <3>1. t[k] \in 1..255 /\ s[1] = t[k]
      BY <1>1, <1>3, <1>5
    <3> QED
      BY <3>1
  <2>2. PICK b \in 1..255 : b = t[k + 1] /\ s[2] = b
    <3>1. t[k + 1] \in 1..255 /\ s[2] = t[k + 1]
      <4>1. k + 1 \in 1..Len(t) /\ 2 \in 1..n /\ k + 2 - 1 = k + 1
        BY <1>1, <1>5
      <4> QED
        BY <1>1, <1>3, <4>1
    <3> QED
      BY <3>1
  <2>3. LeadFrom[2] = 192 /\ LeadTo[2] = 223 /\ LeastOf[2] = 128
    BY DEF LeadFrom, LeadTo, LeastOf
  <2>4. Place[1] = 1 /\ Place[2] = 64
    BY DEF Place
  <2>5. ByPlace(s) = (a - LeadFrom[2]) * Place[2] + (b - 128) * Place[1] + 0 + 0
    BY <1>3, <1>5, <2>1, <2>2 DEF ByPlace
  <2>6. ByPlace(s) = WorthTwo(a, b)
    <3>1. (a - LeadFrom[2]) * Place[2] = (a - 192) * 64
      BY <2>3, <2>4
    <3>2. (b - 128) * Place[1] = (b - 128) * 1
      BY <2>3, <2>4
    <3> QED
      BY <2>5, <3>1, <3>2 DEF WorthTwo
  <2>7. Worth(s) = IF /\ a \in LeadFrom[2]..LeadTo[2] /\ \A i \in 2..2 : s[i] \in 128..191
                      /\ LeastOf[2] <= WorthTwo(a, b) /\ WorthTwo(a, b) <= 1114111
                      /\ WorthTwo(a, b) \notin 55296..57343
                   THEN WorthTwo(a, b) ELSE -1
    BY <1>3, <1>5, <2>1, <2>6 DEF Worth
  <2>8. (\A i \in 2..2 : s[i] \in 128..191) <=> b \in 128..191
    <3>1. (\A i \in 2..2 : s[i] \in 128..191) <=> s[2] \in 128..191
      OBVIOUS
    <3> QED
      BY <2>1, <2>2, <3>1
  <2>9. CharAt(t, k, n) <=> Two(a, b)
    BY <1>1, <1>5, <2>1, <2>2 DEF CharAt
  <2>10. Weighed(t, k, n) = WorthTwo(a, b)
    BY <1>5, <2>1, <2>2 DEF Weighed
  <2>11. Worth(s) = IF Two(a, b) THEN WorthTwo(a, b) ELSE -1
    BY <2>3, <2>7, <2>8 DEF Two, WorthTwo
  <2>12. Two(a, b) => WorthTwo(a, b) \in Nat
    BY DEF Two, WorthTwo
  <2> QED
    BY <1>2, <2>9, <2>10, <2>11, <2>12
<1>6. CASE n = 3
  <2>1. PICK a \in 1..255 : a = t[k] /\ s[1] = a
    <3>1. t[k] \in 1..255 /\ s[1] = t[k]
      BY <1>1, <1>3, <1>6
    <3> QED
      BY <3>1
  <2>2. PICK b \in 1..255 : b = t[k + 1] /\ s[2] = b
    <3>1. t[k + 1] \in 1..255 /\ s[2] = t[k + 1]
      <4>1. k + 1 \in 1..Len(t) /\ 2 \in 1..n /\ k + 2 - 1 = k + 1
        BY <1>1, <1>6
      <4> QED
        BY <1>1, <1>3, <4>1
    <3> QED
      BY <3>1
  <2>3. PICK c \in 1..255 : c = t[k + 2] /\ s[3] = c
    <3>1. t[k + 2] \in 1..255 /\ s[3] = t[k + 2]
      <4>1. k + 2 \in 1..Len(t) /\ 3 \in 1..n /\ k + 3 - 1 = k + 2
        BY <1>1, <1>6
      <4> QED
        BY <1>1, <1>3, <4>1
    <3> QED
      BY <3>1
  <2>4. LeadFrom[3] = 224 /\ LeadTo[3] = 239 /\ LeastOf[3] = 2048
    BY DEF LeadFrom, LeadTo, LeastOf
  <2>5. Place[1] = 1 /\ Place[2] = 64 /\ Place[3] = 4096
    BY DEF Place
  <2>6. ByPlace(s) = (a - LeadFrom[3]) * Place[3] + (b - 128) * Place[2] + (c - 128) * Place[1] + 0
    BY <1>3, <1>6, <2>1, <2>2, <2>3 DEF ByPlace
  <2>7. ByPlace(s) = WorthThree(a, b, c)
    <3>1. (a - LeadFrom[3]) * Place[3] = (a - 224) * 4096
      BY <2>4, <2>5
    <3>2. (b - 128) * Place[2] = (b - 128) * 64
      BY <2>4, <2>5
    <3>3. (c - 128) * Place[1] = (c - 128) * 1
      BY <2>4, <2>5
    <3> QED
      BY <2>6, <3>1, <3>2, <3>3 DEF WorthThree
  <2>8. Worth(s) = IF /\ a \in LeadFrom[3]..LeadTo[3] /\ \A i \in 2..3 : s[i] \in 128..191
                      /\ LeastOf[3] <= WorthThree(a, b, c) /\ WorthThree(a, b, c) <= 1114111
                      /\ WorthThree(a, b, c) \notin 55296..57343
                   THEN WorthThree(a, b, c) ELSE -1
    BY <1>3, <1>6, <2>1, <2>7 DEF Worth
  <2>9. (\A i \in 2..3 : s[i] \in 128..191) <=> b \in 128..191 /\ c \in 128..191
    <3>1. (\A i \in 2..3 : s[i] \in 128..191) <=> s[2] \in 128..191 /\ s[3] \in 128..191
      OBVIOUS
    <3> QED
      BY <2>1, <2>2, <2>3, <3>1
  <2>10. CharAt(t, k, n) <=> Three(a, b, c)
    BY <1>1, <1>6, <2>1, <2>2, <2>3 DEF CharAt
  <2>11. Weighed(t, k, n) = WorthThree(a, b, c)
    BY <1>6, <2>1, <2>2, <2>3 DEF Weighed
  <2>12. Worth(s) = IF Three(a, b, c) THEN WorthThree(a, b, c) ELSE -1
    <3>1. Three(a, b, c) <=>
              /\ a \in 224..239 /\ b \in 128..191 /\ c \in 128..191
              /\ 2048 <= WorthThree(a, b, c) /\ WorthThree(a, b, c) <= 1114111 /\ WorthThree(a, b, c) \notin 55296..57343
      BY DEF Three, WorthThree
    <3> QED
      BY <2>4, <2>8, <2>9, <3>1
  <2>13. Three(a, b, c) => WorthThree(a, b, c) \in Nat
    BY DEF Three, WorthThree
  <2> QED
    BY <1>2, <2>10, <2>11, <2>12, <2>13
<1>7. CASE n = 4
  <2>1. PICK a \in 1..255 : a = t[k] /\ s[1] = a
    <3>1. t[k] \in 1..255 /\ s[1] = t[k]
      BY <1>1, <1>3, <1>7
    <3> QED
      BY <3>1
  <2>2. PICK b \in 1..255 : b = t[k + 1] /\ s[2] = b
    <3>1. t[k + 1] \in 1..255 /\ s[2] = t[k + 1]
      <4>1. k + 1 \in 1..Len(t) /\ 2 \in 1..n /\ k + 2 - 1 = k + 1
        BY <1>1, <1>7
      <4> QED
        BY <1>1, <1>3, <4>1
    <3> QED
      BY <3>1
  <2>3. PICK c \in 1..255 : c = t[k + 2] /\ s[3] = c
    <3>1. t[k + 2] \in 1..255 /\ s[3] = t[k + 2]
      <4>1. k + 2 \in 1..Len(t) /\ 3 \in 1..n /\ k + 3 - 1 = k + 2
        BY <1>1, <1>7
      <4> QED
        BY <1>1, <1>3, <4>1
    <3> QED
      BY <3>1
  <2>4. PICK d \in 1..255 : d = t[k + 3] /\ s[4] = d
    <3>1. t[k + 3] \in 1..255 /\ s[4] = t[k + 3]
      <4>1. k + 3 \in 1..Len(t) /\ 4 \in 1..n /\ k + 4 - 1 = k + 3
        BY <1>1, <1>7
      <4> QED
        BY <1>1, <1>3, <4>1
    <3> QED
      BY <3>1
  <2>5. LeadFrom[4] = 240 /\ LeadTo[4] = 247 /\ LeastOf[4] = 65536
    BY DEF LeadFrom, LeadTo, LeastOf
  <2>6. Place[1] = 1 /\ Place[2] = 64 /\ Place[3] = 4096 /\ Place[4] = 262144
    BY DEF Place
  <2>7. ByPlace(s) = (a - LeadFrom[4]) * Place[4] + (b - 128) * Place[3] + (c - 128) * Place[2] + (d - 128) * Place[1]
    BY <1>3, <1>7, <2>1, <2>2, <2>3, <2>4 DEF ByPlace
  <2>8. ByPlace(s) = WorthFour(a, b, c, d)
    <3>1. (a - LeadFrom[4]) * Place[4] = (a - 240) * 262144
      BY <2>5, <2>6
    <3>2. (b - 128) * Place[3] = (b - 128) * 4096
      BY <2>5, <2>6
    <3>3. (c - 128) * Place[2] = (c - 128) * 64
      BY <2>5, <2>6
    <3>4. (d - 128) * Place[1] = (d - 128) * 1
      BY <2>5, <2>6
    <3> QED
      BY <2>7, <3>1, <3>2, <3>3, <3>4 DEF WorthFour
  <2>9. Worth(s) = IF /\ a \in LeadFrom[4]..LeadTo[4] /\ \A i \in 2..4 : s[i] \in 128..191
                      /\ LeastOf[4] <= WorthFour(a, b, c, d) /\ WorthFour(a, b, c, d) <= 1114111
                      /\ WorthFour(a, b, c, d) \notin 55296..57343
                   THEN WorthFour(a, b, c, d) ELSE -1
    BY <1>3, <1>7, <2>1, <2>8 DEF Worth
  <2>10. (\A i \in 2..4 : s[i] \in 128..191) <=> b \in 128..191 /\ c \in 128..191 /\ d \in 128..191
    <3>1. (\A i \in 2..4 : s[i] \in 128..191) <=> s[2] \in 128..191 /\ s[3] \in 128..191 /\ s[4] \in 128..191
      OBVIOUS
    <3> QED
      BY <2>1, <2>2, <2>3, <2>4, <3>1
  <2>11. CharAt(t, k, n) <=> Four(a, b, c, d)
    BY <1>1, <1>7, <2>1, <2>2, <2>3, <2>4 DEF CharAt
  <2>12. Weighed(t, k, n) = WorthFour(a, b, c, d)
    BY <1>7, <2>1, <2>2, <2>3, <2>4 DEF Weighed
  <2>13. Worth(s) = IF Four(a, b, c, d) THEN WorthFour(a, b, c, d) ELSE -1
    <3>1. Four(a, b, c, d) <=>
              /\ a \in 240..247 /\ b \in 128..191 /\ c \in 128..191 /\ d \in 128..191
              /\ 65536 <= WorthFour(a, b, c, d) /\ WorthFour(a, b, c, d) <= 1114111 /\ WorthFour(a, b, c, d) \notin 55296..57343
      BY DEF Four, WorthFour
    <3> QED
      BY <2>5, <2>9, <2>10, <3>1
  <2>14. Four(a, b, c, d) => WorthFour(a, b, c, d) \in Nat
    BY DEF Four, WorthFour
  <2> QED
    BY <1>2, <2>11, <2>12, <2>13, <2>14
<1> QED
  BY <1>4, <1>5, <1>6, <1>7

------------------------------------------------------------------------------
(***************************************************************************)
(* The code points of a text, place by place.                              *)
(***************************************************************************)

CodeAt(t, k) ==
  IF SequenceLen(t, k) = 0 THEN Replacement
  ELSE Worth(SubSeq(t, k, k + SequenceLen(t, k) - 1))

LengthsThere(t, k) ==
  {n \in 1..4 : /\ k + n - 1 <= Len(t)
                /\ Worth(SubSeq(t, k, k + n - 1)) >= 0}

PointsBody(t, f, k) ==
  IF k > Len(t) THEN << >>
  ELSE IF LengthsThere(t, k) = {} THEN <<Replacement>> \o f[k + 1]
  ELSE <<Worth(SubSeq(t, k, k + (CHOOSE m \in LengthsThere(t, k) : TRUE) - 1))>>
         \o f[k + (CHOOSE m \in LengthsThere(t, k) : TRUE)]

IsPoints(t, f) == f = [k \in 1..Len(t)+4 |-> PointsBody(t, f, k)]

PointsFrom(t) == CHOOSE f : IsPoints(t, f)

LEMMA CodePointsAre ==
  ASSUME NEW t PROVE CodePoints(t) = PointsFrom(t)[1]
BY Zenon DEF CodePoints, PointsFrom, IsPoints, PointsBody, LengthsThere

LEMMA FitsAre ==
  ASSUME NEW t \in Texts, NEW k \in 1..Len(t)
  PROVE  LengthsThere(t, k) = {n \in 1..4 : SequenceLen(t, k) = n}
<1>1. ASSUME NEW n \in 1..4
      PROVE  n \in LengthsThere(t, k) <=> SequenceLen(t, k) = n
  <2>1. SequenceLen(t, k) = n <=> CharAt(t, k, n)
    BY LengthIs
  <2>2. CASE k + n - 1 <= Len(t)
    <3>1. Worth(SubSeq(t, k, k + n - 1)) >= 0 <=> CharAt(t, k, n)
      <4>1. PICK w : w = Worth(SubSeq(t, k, k + n - 1))
        OBVIOUS
      <4>2. w = (IF CharAt(t, k, n) THEN Weighed(t, k, n) ELSE -1)
             /\ (CharAt(t, k, n) => Weighed(t, k, n) \in Nat)
        BY <2>2, <4>1, WorthIs
      <4>3. CharAt(t, k, n) => w \in Nat
        BY <4>2
      <4>4. ~CharAt(t, k, n) => w = -1
        BY <4>2
      <4> QED
        BY <4>1, <4>3, <4>4
    <3> QED
      BY <2>1, <2>2, <3>1 DEF LengthsThere
  <2>3. CASE ~(k + n - 1 <= Len(t))
    <3>1. ~CharAt(t, k, n)
      BY <2>3 DEF CharAt
    <3> QED
      BY <2>1, <2>3, <3>1 DEF LengthsThere
  <2> QED
    BY <2>2, <2>3
<1> QED
  BY <1>1 DEF LengthsThere

LEMMA BodyIs ==
  ASSUME NEW t \in Texts, NEW k \in 1..Len(t), NEW f
  PROVE  PointsBody(t, f, k) = <<CodeAt(t, k)>> \o f[k + Step(t, k)]
<1>1. ~(k > Len(t))
  BY BytesOf
<1>2. SequenceLen(t, k) \in 0..4
  BY LengthIs
<1>3. CASE SequenceLen(t, k) = 0
  <2>1. LengthsThere(t, k) = {}
    BY <1>3, FitsAre
  <2> QED
    BY <1>1, <1>3, <2>1 DEF PointsBody, CodeAt, Step
<1>4. CASE SequenceLen(t, k) # 0
  <2>1. LengthsThere(t, k) = {SequenceLen(t, k)}
    BY <1>2, <1>4, FitsAre
  <2>2. (CHOOSE m \in LengthsThere(t, k) : TRUE) = SequenceLen(t, k)
    BY <2>1
  <2>3. LengthsThere(t, k) # {}
    BY <2>1
  <2>4. Step(t, k) = SequenceLen(t, k)
    BY <1>4 DEF Step
  <2>5. PointsBody(t, f, k) = <<Worth(SubSeq(t, k, k + SequenceLen(t, k) - 1))>>
                                \o f[k + SequenceLen(t, k)]
    BY <1>1, <2>2, <2>3 DEF PointsBody
  <2>6. CodeAt(t, k) = Worth(SubSeq(t, k, k + SequenceLen(t, k) - 1))
    BY <1>4 DEF CodeAt
  <2> QED
    BY <2>4, <2>5, <2>6
<1> QED
  BY <1>3, <1>4

LEMMA CodeIsInt ==
  ASSUME NEW t \in Texts, NEW k \in 1..Len(t)
  PROVE  CodeAt(t, k) \in Int /\ Step(t, k) \in 1..4 /\ k + Step(t, k) \in k+1..Len(t)+1
<1>1. SequenceLen(t, k) \in 0..4
  BY LengthIs
<1>2. Len(t) \in Nat /\ k \in Nat
  BY BytesOf
<1>3. CASE SequenceLen(t, k) = 0
  BY <1>2, <1>3 DEF CodeAt, Step, Replacement
<1>4. CASE SequenceLen(t, k) # 0
  <2>1. PICK n \in 1..4 : n = SequenceLen(t, k)
    BY <1>1, <1>4
  <2>2. CharAt(t, k, n)
    BY <2>1, LengthIs
  <2>3. k + n - 1 <= Len(t)
    BY <2>2 DEF CharAt
  <2>4. Worth(SubSeq(t, k, k + n - 1)) = Weighed(t, k, n) /\ Weighed(t, k, n) \in Nat
    BY <2>2, <2>3, WorthIs
  <2> QED
    BY <1>2, <1>4, <2>1, <2>3, <2>4 DEF CodeAt, Step
<1> QED
  BY <1>3, <1>4

LEMMA PointsExist ==
  ASSUME NEW t \in Texts
  PROVE  \E f : IsPoints(t, f) /\ f \in [1..Len(t)+4 -> Seq(Int)]
<1> DEFINE n == Len(t) + 4
           V == Seq(Int)
           stops == {k \in 1..n : k > Len(t)}
           base == [k \in 1..n |-> << >>]
           made == [k \in 1..n |-> [v \in V |-> <<IF k > Len(t) THEN 0 ELSE CodeAt(t, k)>> \o v]]
           next == [k \in 1..n |-> k + Step(t, k)]
<1>1. Len(t) \in Nat
  BY BytesOf
<1>2. base \in [1..n -> V]
  OBVIOUS
<1>3. made \in [1..n -> [V -> V]]
  <2>1. ASSUME NEW k \in 1..n, NEW v \in V
        PROVE  <<IF k > Len(t) THEN 0 ELSE CodeAt(t, k)>> \o v \in V
    <3>1. (IF k > Len(t) THEN 0 ELSE CodeAt(t, k)) \in Int
      BY <1>1, CodeIsInt
    <3>2. <<IF k > Len(t) THEN 0 ELSE CodeAt(t, k)>> \in Seq(Int)
      BY <3>1
    <3> QED
      BY <3>2, ConcatProperties
  <2> QED
    BY <2>1
<1>4. \A k \in 1..n : k \in stops \/ next[k] \in k+1..n
  BY <1>1, CodeIsInt
<1>5. Descent(V, n, stops, base, made, next)
  <2> HIDE DEF V, stops, base, made, next
  <2> QED
    BY <1>1, <1>2, <1>3, <1>4 DEF Descent
<1>6. PICK f \in [1..n -> V] : Descends(f, n, stops, base, made, next)
  <2> HIDE DEF V, stops, base, made, next
  <2> QED
    BY <1>5, DescentExists
<1>7. ASSUME NEW k \in 1..n PROVE f[k] = PointsBody(t, f, k)
  <2>0. f[k] = IF k \in stops THEN base[k] ELSE made[k][f[next[k]]]
    BY <1>6 DEF Descends
  <2>1. CASE k > Len(t)
    BY <2>0, <2>1 DEF PointsBody
  <2>2. CASE ~(k > Len(t))
    <3>1. k \in 1..Len(t) /\ k \notin stops
      BY <1>1, <2>2
    <3>2. next[k] \in k+1..n
      BY <1>4, <3>1
    <3>3. f[next[k]] \in V
      BY <1>1, <1>6, <3>2
    <3>4. f[k] = made[k][f[next[k]]]
      BY <2>0, <3>1
    <3>5. made[k][f[next[k]]] = <<CodeAt(t, k)>> \o f[next[k]]
      BY <2>2, <3>3
    <3>6. next[k] = k + Step(t, k)
      OBVIOUS
    <3> HIDE DEF made, next, V, stops, base
    <3>7. f[k] = <<CodeAt(t, k)>> \o f[k + Step(t, k)]
      BY <3>4, <3>5, <3>6
    <3> QED
      BY <3>1, <3>7, BodyIs
  <2> QED
    BY <2>1, <2>2
<1>8. IsPoints(t, f)
  <2>1. f = [k \in 1..n |-> f[k]]
    BY <1>6
  <2> QED
    BY <1>7, <2>1 DEF IsPoints
<1> QED
  BY <1>6, <1>8

LEMMA PointsUnfold ==
  ASSUME NEW t \in Texts, NEW c, c = PointsFrom(t)
  PROVE  /\ \A k \in 1..Len(t) : c[k] = <<CodeAt(t, k)>> \o c[k + Step(t, k)]
         /\ c[Len(t) + 1] = << >>
<1>1. Len(t) \in Nat
  BY BytesOf
<1>2. IsPoints(t, c)
  BY PointsExist, Zenon DEF PointsFrom
<1>3. c = [k \in 1..Len(t)+4 |-> PointsBody(t, c, k)]
  BY <1>2 DEF IsPoints
<1>4. \A k \in 1..Len(t)+4 : c[k] = PointsBody(t, c, k)
  <2> DEFINE g(k) == PointsBody(t, c, k)
  <2> HIDE DEF g
  <2>1. c = [k \in 1..Len(t)+4 |-> g(k)]
    BY <1>3 DEF g
  <2>2. \A k \in 1..Len(t)+4 : c[k] = g(k)
    BY <2>1
  <2> QED
    BY <2>2 DEF g
<1>5. ASSUME NEW k \in 1..Len(t) PROVE c[k] = <<CodeAt(t, k)>> \o c[k + Step(t, k)]
  <2>1. k \in 1..Len(t)+4
    BY <1>1
  <2>2. c[k] = PointsBody(t, c, k)
    BY <1>4, <2>1
  <2> QED
    BY <2>2, BodyIs
<1>6. c[Len(t) + 1] = << >>
  <2>1. Len(t) + 1 \in 1..Len(t)+4 /\ Len(t) + 1 > Len(t)
    BY <1>1
  <2>2. c[Len(t) + 1] = PointsBody(t, c, Len(t) + 1)
    BY <1>4, <2>1
  <2> QED
    BY <2>1, <2>2 DEF PointsBody
<1> QED
  BY <1>5, <1>6

LEMMA CodeIs ==
  ASSUME NEW t \in Texts, NEW k \in 1..Len(t)
  PROVE  /\ \A n \in 1..4 : CharAt(t, k, n) =>
              /\ SequenceLen(t, k) = n /\ Step(t, k) = n /\ CodeAt(t, k) = Weighed(t, k, n)
              /\ Weighed(t, k, n) \in Nat /\ k + n - 1 <= Len(t)
         /\ (\A n \in 1..4 : ~CharAt(t, k, n)) =>
              SequenceLen(t, k) = 0 /\ Step(t, k) = 1 /\ CodeAt(t, k) = Replacement
<1>1. SequenceLen(t, k) \in 0..4
  BY LengthIs
<1>2. ASSUME NEW n \in 1..4, CharAt(t, k, n)
      PROVE  /\ SequenceLen(t, k) = n /\ Step(t, k) = n /\ CodeAt(t, k) = Weighed(t, k, n)
             /\ Weighed(t, k, n) \in Nat /\ k + n - 1 <= Len(t)
  <2>1. SequenceLen(t, k) = n
    BY <1>2, LengthIs
  <2>2. k + n - 1 <= Len(t)
    BY <1>2 DEF CharAt
  <2>3. Worth(SubSeq(t, k, k + n - 1)) = Weighed(t, k, n) /\ Weighed(t, k, n) \in Nat
    BY <1>2, <2>2, WorthIs
  <2> QED
    BY <2>1, <2>2, <2>3 DEF CodeAt, Step
<1>3. ASSUME \A n \in 1..4 : ~CharAt(t, k, n)
      PROVE  SequenceLen(t, k) = 0 /\ Step(t, k) = 1 /\ CodeAt(t, k) = Replacement
  <2>1. \A n \in 1..4 : SequenceLen(t, k) # n
    BY <1>3, LengthIs
  <2>2. SequenceLen(t, k) = 0
    BY <1>1, <2>1
  <2> QED
    BY <2>2 DEF CodeAt, Step
<1> QED
  BY <1>2, <1>3

(* t ends with b, which begins behind its first n bytes. *)
EndsWith(t, n, b) ==
  /\ n \in Nat /\ t \in Texts /\ b \in Texts
  /\ Len(t) = n + Len(b)
  /\ \A j \in 1..Len(b) : t[n + j] = b[j]

LEMMA SameChars ==
  ASSUME NEW t, NEW b, NEW n, EndsWith(t, n, b), NEW j \in 1..Len(b), NEW m \in 1..4
  PROVE  /\ CharAt(t, n + j, m) <=> CharAt(b, j, m)
         /\ CharAt(b, j, m) => Weighed(t, n + j, m) = Weighed(b, j, m)
<1>1. n \in Nat /\ Len(b) \in Nat /\ Len(t) = n + Len(b) /\ j \in Nat
  BY BytesOf DEF EndsWith
<1>2. n + j + m - 1 <= Len(t) <=> j + m - 1 <= Len(b)
  BY <1>1
<1>3. CASE ~(j + m - 1 <= Len(b))
  BY <1>2, <1>3 DEF CharAt
<1>4. CASE j + m - 1 <= Len(b)
  <2>0. \A i \in 1..Len(b) : t[n + i] = b[i]
    BY DEF EndsWith
  <2>1. t[n + j] = b[j]
    BY <2>0
  <2>2. m >= 2 => t[n + j + 1] = b[j + 1]
    <3>1. m >= 2 => j + 1 \in 1..Len(b) /\ n + (j + 1) = n + j + 1
      BY <1>1, <1>4
    <3> QED
      BY <2>0, <3>1
  <2>3. m >= 3 => t[n + j + 2] = b[j + 2]
    <3>1. m >= 3 => j + 2 \in 1..Len(b) /\ n + (j + 2) = n + j + 2
      BY <1>1, <1>4
    <3> QED
      BY <2>0, <3>1
  <2>4. m = 4 => t[n + j + 3] = b[j + 3]
    <3>1. m = 4 => j + 3 \in 1..Len(b) /\ n + (j + 3) = n + j + 3
      BY <1>1, <1>4
    <3> QED
      BY <2>0, <3>1
  <2>5. CASE m = 1
    BY <1>2, <2>1, <2>5 DEF CharAt, Weighed
  <2>6. CASE m = 2
    BY <1>2, <2>1, <2>2, <2>6 DEF CharAt, Weighed
  <2>7. CASE m = 3
    BY <1>2, <2>1, <2>2, <2>3, <2>7 DEF CharAt, Weighed
  <2>8. CASE m = 4
    BY <1>2, <2>1, <2>2, <2>3, <2>4, <2>8 DEF CharAt, Weighed
  <2> QED
    BY <2>5, <2>6, <2>7, <2>8
<1> QED
  BY <1>3, <1>4

LEMMA SameCodes ==
  ASSUME NEW t, NEW b, NEW n, EndsWith(t, n, b), NEW j \in 1..Len(b)
  PROVE  CodeAt(t, n + j) = CodeAt(b, j) /\ Step(t, n + j) = Step(b, j)
<1>1. t \in Texts /\ b \in Texts /\ n + j \in 1..Len(t)
  BY BytesOf DEF EndsWith
<1>2. CASE \E m \in 1..4 : CharAt(b, j, m)
  <2>1. PICK m \in 1..4 : CharAt(b, j, m)
    BY <1>2
  <2>2. CharAt(t, n + j, m) /\ Weighed(t, n + j, m) = Weighed(b, j, m)
    BY <2>1, SameChars
  <2>3. Step(b, j) = m /\ CodeAt(b, j) = Weighed(b, j, m)
    BY <1>1, <2>1, CodeIs
  <2>4. Step(t, n + j) = m /\ CodeAt(t, n + j) = Weighed(t, n + j, m)
    BY <1>1, <2>2, CodeIs
  <2> QED
    BY <2>2, <2>3, <2>4
<1>3. CASE \A m \in 1..4 : ~CharAt(b, j, m)
  <2>1. \A m \in 1..4 : ~CharAt(t, n + j, m)
    BY <1>3, SameChars
  <2>2. Step(b, j) = 1 /\ CodeAt(b, j) = Replacement
    BY <1>1, <1>3, CodeIs
  <2>3. Step(t, n + j) = 1 /\ CodeAt(t, n + j) = Replacement
    BY <1>1, <2>1, CodeIs
  <2> QED
    BY <2>2, <2>3
<1> QED
  BY <1>2, <1>3

LEMMA SamePoints ==
  ASSUME NEW t, NEW b, NEW n, EndsWith(t, n, b), NEW j \in 1..Len(b)+1
  PROVE  PointsFrom(t)[n + j] = PointsFrom(b)[j]
<1>1. /\ t \in Texts /\ b \in Texts /\ n \in Nat /\ Len(b) \in Nat
      /\ Len(t) = n + Len(b)
  BY BytesOf DEF EndsWith
<1>2. PICK c : c = PointsFrom(t)
  OBVIOUS
<1>3. PICK d : d = PointsFrom(b)
  OBVIOUS
<1> DEFINE S == {i \in 1..Len(b)+1 : c[n + i] = d[i]}
<1>4. ASSUME NEW k \in 1..Len(b)+1, \A i \in k+1..Len(b)+1 : i \in S PROVE k \in S
  <2>1. CASE k = Len(b) + 1
    <3>1. n + k = Len(t) + 1
      BY <1>1, <2>1
    <3>2. c[Len(t) + 1] = << >> /\ d[Len(b) + 1] = << >>
      BY <1>1, <1>2, <1>3, PointsUnfold
    <3> QED
      BY <2>1, <3>1, <3>2
  <2>2. CASE k # Len(b) + 1
    <3>1. k \in 1..Len(b) /\ n + k \in 1..Len(t)
      BY <1>1, <2>2
    <3>2. PICK m : m = Step(b, k)
      OBVIOUS
    <3>3. m \in 1..4 /\ k + m \in k+1..Len(b)+1
      BY <1>1, <3>1, <3>2, CodeIsInt
    <3>4. c[n + k] = <<CodeAt(t, n + k)>> \o c[n + k + Step(t, n + k)]
      BY <1>1, <1>2, <3>1, PointsUnfold
    <3>5. d[k] = <<CodeAt(b, k)>> \o d[k + m]
      BY <1>1, <1>3, <3>1, <3>2, PointsUnfold
    <3>6. CodeAt(t, n + k) = CodeAt(b, k) /\ Step(t, n + k) = m
      BY <3>1, <3>2, SameCodes
    <3>7. c[n + (k + m)] = d[k + m]
      BY <1>4, <3>3
    <3>8. n + (k + m) = n + k + m
      BY <1>1, <3>1, <3>3
    <3> QED
      BY <3>4, <3>5, <3>6, <3>7, <3>8
  <2> QED
    BY <2>1, <2>2
<1>5. S = 1..Len(b)+1
  <2>1. S \in SUBSET (1..Len(b)+1) /\ Len(b) + 1 \in Nat
    BY <1>1
  <2> HIDE DEF S
  <2> QED
    BY <1>4, <2>1, Downwards
<1> QED
  BY <1>2, <1>3, <1>5

(* A character before a text is a code point before its code points. *)
LEMMA CharFirst ==
  ASSUME NEW u \in Texts, NEW b \in Texts, Len(u) \in 1..4, CharAt(u, 1, Len(u))
  PROVE  /\ u \o b \in Texts
         /\ CodePoints(u \o b) = <<Weighed(u, 1, Len(u))>> \o CodePoints(b)
<1>1. PICK n \in 1..4 : n = Len(u)
  OBVIOUS
<1>2. PICK t : t = u \o b
  OBVIOUS
<1>3. Len(b) \in Nat
  BY BytesOf
<1>4. /\ t \in Texts /\ Len(t) = n + Len(b)
      /\ \A i \in 1..n : t[i] = u[i]
      /\ \A j \in 1..Len(b) : t[n + j] = b[j]
  <2>1. u \in Seq(1..255) /\ b \in Seq(1..255)
    BY DEF Texts
  <2>2. /\ t \in Seq(1..255) /\ Len(t) = Len(u) + Len(b)
        /\ \A i \in 1 .. Len(u) + Len(b) : t[i] = IF i <= Len(u) THEN u[i] ELSE b[i - Len(u)]
    BY <1>2, <2>1, ConcatProperties
  <2>3. \A i \in 1..n : t[i] = u[i]
    BY <1>1, <1>3, <2>2
  <2>4. ASSUME NEW j \in 1..Len(b) PROVE t[n + j] = b[j]
    <3>1. n + j \in 1..n+Len(b) /\ ~(n + j <= n) /\ n + j - n = j
      BY <1>3
    <3> QED
      BY <1>1, <2>2, <3>1
  <2> QED
    BY <1>1, <2>2, <2>3, <2>4 DEF Texts
<1>5. EndsWith(t, n, b)
  BY <1>4 DEF EndsWith
<1>6. 1 \in 1..Len(t)
  BY <1>3, <1>4
<1>7. CharAt(t, 1, n) /\ Weighed(t, 1, n) = Weighed(u, 1, n)
  <2>0. CharAt(u, 1, n)
    BY <1>1
  <2>1. 1 + n - 1 <= Len(t)
    BY <1>3, <1>4
  <2>2. t[1] = u[1]
    BY <1>4
  <2>3. n >= 2 => t[1 + 1] = u[1 + 1]
    BY <1>4
  <2>4. n >= 3 => t[1 + 2] = u[1 + 2]
    BY <1>4
  <2>5. n = 4 => t[1 + 3] = u[1 + 3]
    BY <1>4
  <2>6. CASE n = 1
    BY <2>0, <2>1, <2>2, <2>6 DEF CharAt, Weighed
  <2>7. CASE n = 2
    BY <2>0, <2>1, <2>2, <2>3, <2>7 DEF CharAt, Weighed
  <2>8. CASE n = 3
    BY <2>0, <2>1, <2>2, <2>3, <2>4, <2>8 DEF CharAt, Weighed
  <2>9. CASE n = 4
    BY <2>0, <2>1, <2>2, <2>3, <2>4, <2>5, <2>9 DEF CharAt, Weighed
  <2> QED
    BY <2>6, <2>7, <2>8, <2>9
<1>8. CodeAt(t, 1) = Weighed(u, 1, n) /\ Step(t, 1) = n
  BY <1>4, <1>6, <1>7, CodeIs
<1>9. PointsFrom(t)[1] = <<CodeAt(t, 1)>> \o PointsFrom(t)[1 + Step(t, 1)]
  BY <1>4, <1>6, PointsUnfold
<1>10. PointsFrom(t)[n + 1] = PointsFrom(b)[1]
  <2>1. 1 \in 1..Len(b)+1
    BY <1>3
  <2> QED
    BY <1>5, <2>1, SamePoints
<1>11. n + 1 = 1 + n
  OBVIOUS
<1>12. PointsFrom(t)[1] = <<Weighed(u, 1, n)>> \o PointsFrom(b)[1]
  BY <1>8, <1>9, <1>10, <1>11
<1> QED
  BY <1>1, <1>2, <1>4, <1>12, CodePointsAre

LEMMA Quotient ==
  ASSUME NEW m \in Nat \ {0}, NEW x \in Nat, NEW a \in Nat, NEW b \in Nat, b < m,
         x = a * m + b
  PROVE  x \div m = a /\ x % m = b
<1>1. x \div m = a
  BY SMTT(30)
<1>2. x % m = b
  BY SMTT(30)
<1> QED
  BY <1>1, <1>2

Split64(x, a, b) == b < 64 /\ x = a * 64 + b
Split16(x, a, b) == b < 16 /\ x = a * 16 + b

LEMMA By64 ==
  ASSUME NEW x \in Nat
  PROVE  \E a \in Nat, b \in Nat : Split64(x, a, b)
<1>1. x \div 64 \in Nat /\ x % 64 \in Nat /\ x % 64 < 64 /\ x = (x \div 64) * 64 + (x % 64)
  BY SMT
<1> QED
  BY <1>1, SMT DEF Split64, Split16

LEMMA By16 ==
  ASSUME NEW x \in Nat
  PROVE  \E a \in Nat, b \in Nat : Split16(x, a, b)
<1>1. x \div 16 \in Nat /\ x % 16 \in Nat /\ x % 16 < 16 /\ x = (x \div 16) * 16 + (x % 16)
  BY SMT
<1> QED
  BY <1>1, SMT DEF Split64, Split16

PlacesTwo(x, a, b) ==
  /\ 2 <= a /\ a < 32 /\ b < 64
  /\ x = a * 64 + b
  /\ x \div 64 = a /\ (x \div 1) % 64 = b
PlacesThree(x, a, b, c) ==
  /\ a < 16 /\ b < 64 /\ c < 64
  /\ x = a * 4096 + b * 64 + c
  /\ x \div 4096 = a /\ (x \div 64) % 64 = b /\ (x \div 1) % 64 = c
PlacesFour(x, a, b, c, d) ==
  /\ a < 5 /\ b < 64 /\ c < 64 /\ d < 64
  /\ x = a * 262144 + b * 4096 + c * 64 + d
  /\ x \div 262144 = a /\ (x \div 4096) % 64 = b
  /\ (x \div 64) % 64 = c /\ (x \div 1) % 64 = d
HexPlaces(x, a, b, c, d) ==
  /\ a < 16 /\ b < 16 /\ c < 16 /\ d < 16
  /\ x = a * 4096 + b * 256 + c * 16 + d
  /\ x \div 4096 = a /\ (x \div 256) % 16 = b
  /\ (x \div 16) % 16 = c /\ x % 16 = d

LEMMA PlacesOfTwo ==
  ASSUME NEW x \in Nat, 128 <= x, x <= 2047
  PROVE  \E a \in Nat, b \in Nat : PlacesTwo(x, a, b)
<1>1a. PICK a \in Nat, b \in Nat : Split64(x, a, b)
  BY By64
<1>1. b < 64 /\ x = a * 64 + b
  BY <1>1a DEF Split64
<1>2. 2 <= a /\ a < 32
  BY <1>1, SMT
<1>3. x \div 64 = a /\ x % 64 = b
  BY <1>1, Quotient
<1>4. x \div 1 = x
  BY SMT
<1>5. PlacesTwo(x, a, b)
  BY <1>1, <1>2, <1>3, <1>4 DEF PlacesTwo
<1> QED
  BY <1>5

LEMMA PlacesOfThree ==
  ASSUME NEW x \in Nat, 2048 <= x, x <= 65535
  PROVE  \E a \in Nat, b \in Nat, c \in Nat : PlacesThree(x, a, b, c)
<1>1a. PICK q \in Nat, c \in Nat : Split64(x, q, c)
  BY By64
<1>1. c < 64 /\ x = q * 64 + c
  BY <1>1a DEF Split64
<1>2a. PICK a \in Nat, b \in Nat : Split64(q, a, b)
  BY By64
<1>2. b < 64 /\ q = a * 64 + b
  BY <1>2a DEF Split64
<1>3. x \div 64 = q /\ x % 64 = c
  BY <1>1, Quotient
<1>4. q % 64 = b
  BY <1>2, Quotient
<1>5. x = a * 4096 + b * 64 + c
  BY <1>1, <1>2, SMT
<1>6. a < 16
  BY <1>5, SMT
<1>7. x \div 4096 = a
  <2>1. b * 64 + c \in Nat /\ b * 64 + c < 4096 /\ x = a * 4096 + (b * 64 + c)
    BY <1>1, <1>2, <1>5, SMT
  <2> QED
    BY <2>1, Quotient
<1>8. x \div 1 = x
  BY SMT
<1>9. PlacesThree(x, a, b, c)
  BY <1>1, <1>2, <1>3, <1>4, <1>5, <1>6, <1>7, <1>8 DEF PlacesThree
<1> QED
  BY <1>9

LEMMA PlacesOfFour ==
  ASSUME NEW x \in Nat, 65536 <= x, x <= 1114111
  PROVE  \E a \in Nat, b \in Nat, c \in Nat, d \in Nat : PlacesFour(x, a, b, c, d)
<1>1a. PICK q \in Nat, d \in Nat : Split64(x, q, d)
  BY By64
<1>1. d < 64 /\ x = q * 64 + d
  BY <1>1a DEF Split64
<1>2a. PICK p \in Nat, c \in Nat : Split64(q, p, c)
  BY By64
<1>2. c < 64 /\ q = p * 64 + c
  BY <1>2a DEF Split64
<1>3a. PICK a \in Nat, b \in Nat : Split64(p, a, b)
  BY By64
<1>3. b < 64 /\ p = a * 64 + b
  BY <1>3a DEF Split64
<1>4. x \div 64 = q /\ x % 64 = d
  BY <1>1, Quotient
<1>5. q % 64 = c
  BY <1>2, Quotient
<1>6. p % 64 = b
  BY <1>3, Quotient
<1>7. x = a * 262144 + b * 4096 + c * 64 + d
  BY <1>1, <1>2, <1>3, SMT
<1>8. a < 5
  BY <1>7, SMT
<1>9. x \div 4096 = p
  <2>1. c * 64 + d \in Nat /\ c * 64 + d < 4096 /\ x = p * 4096 + (c * 64 + d)
    BY <1>1, <1>2, SMT
  <2> QED
    BY <2>1, Quotient
<1>10. x \div 262144 = a
  <2>1. /\ b * 4096 + c * 64 + d \in Nat /\ b * 4096 + c * 64 + d < 262144
        /\ x = a * 262144 + (b * 4096 + c * 64 + d)
    BY <1>1, <1>2, <1>3, <1>7, SMT
  <2> QED
    BY <2>1, Quotient
<1>11. x \div 1 = x
  BY SMT
<1>12. PlacesFour(x, a, b, c, d)
  BY <1>1, <1>2, <1>3, <1>4, <1>5, <1>6, <1>7, <1>8, <1>9, <1>10, <1>11 DEF PlacesFour
<1> QED
  BY <1>12

(* What is written, by the size of the code point. *)
LEMMA EmittedOne ==
  ASSUME NEW cp, cp <= 127 PROVE EmitUtf8(cp) = <<cp>>
BY DEF EmitUtf8

LEMMA EmittedTwo ==
  ASSUME NEW cp, ~(cp <= 127), cp <= 2047
  PROVE  EmitUtf8(cp) = <<192 + cp \div 64, Six(cp, 1)>>
BY DEF EmitUtf8

LEMMA EmittedThree ==
  ASSUME NEW cp, ~(cp <= 127), ~(cp <= 2047), cp <= 65535
  PROVE  EmitUtf8(cp) = <<224 + cp \div 4096, Six(cp, 64), Six(cp, 1)>>
BY SMT DEF EmitUtf8

LEMMA EmittedFour ==
  ASSUME NEW cp, ~(cp <= 127), ~(cp <= 2047), ~(cp <= 65535)
  PROVE  EmitUtf8(cp) = <<240 + cp \div 262144, Six(cp, 4096), Six(cp, 64), Six(cp, 1)>>
BY SMT DEF EmitUtf8

CodePoint(cp) ==
  cp \in Nat /\ 1 <= cp /\ cp <= 1114111 /\ ~(55296 <= cp /\ cp <= 57343)

(* What is emitted for a code point is the character that is worth it. *)
LEMMA EmittedIsChar ==
  ASSUME NEW cp, CodePoint(cp), NEW u, u = EmitUtf8(cp)
  PROVE  /\ u \in Texts /\ Len(u) \in 1..4
         /\ CharAt(u, 1, Len(u)) /\ Weighed(u, 1, Len(u)) = cp
<1>0. cp \in Nat
  BY DEF CodePoint
<1>1. CASE cp <= 127
  <2>1. u = <<cp>>
    BY <1>1, EmittedOne
  <2>2. cp \in 1..255 /\ cp < 128
    BY <1>1 DEF CodePoint
  <2>3. u \in Seq(1..255) /\ Len(u) = 1 /\ u[1] = cp
    BY <2>1, <2>2
  <2>4. CharAt(u, 1, 1)
    BY <2>2, <2>3 DEF CharAt
  <2>5. Weighed(u, 1, 1) = cp
    BY <2>3 DEF Weighed
  <2> QED
    BY <2>3, <2>4, <2>5 DEF Texts
<1>2. CASE 128 <= cp /\ cp <= 2047
  <2>0. PICK a \in Nat, b \in Nat : PlacesTwo(cp, a, b)
    BY <1>2, <1>0, PlacesOfTwo
  <2>1. /\ 2 <= a /\ a < 32 /\ b < 64 /\ cp = a * 64 + b
        /\ cp \div 64 = a /\ (cp \div 1) % 64 = b
    BY <2>0 DEF PlacesTwo
  <2>2. PICK x \in Nat, y \in Nat :
           x = 192 + a /\ y = 128 + b /\ x \in 194..223 /\ y \in 128..191
    BY <2>1
  <2>3. ~(cp <= 127) /\ cp <= 2047
    BY <1>0, <1>2
  <2>4. u = <<192 + cp \div 64, Six(cp, 1)>>
    BY <2>3, EmittedTwo
  <2>5. u = <<x, y>>
    <3>1. Six(cp, 1) = y
      BY <2>1, <2>2 DEF Six
    <3>2. 192 + cp \div 64 = x
      BY <2>1, <2>2
    <3> QED
      BY <2>4, <3>1, <3>2
  <2>6. u \in Seq(1..255) /\ Len(u) = 2 /\ u[1] = x /\ u[2] = y
    <3>1. x \in 1..255 /\ y \in 1..255
      BY <2>2
    <3> QED
      BY <2>5, <3>1
  <2>7. Two(x, y)
    BY <2>2 DEF Two
  <2>8. CharAt(u, 1, 2)
    BY <2>6, <2>7 DEF CharAt
  <2>9. Weighed(u, 1, 2) = WorthTwo(x, y)
    BY <2>6 DEF Weighed
  <2>10. WorthTwo(x, y) = cp
    BY <2>1, <2>2 DEF WorthTwo
  <2> QED
    BY <2>6, <2>8, <2>9, <2>10 DEF Texts
<1>3. CASE 2048 <= cp /\ cp <= 65535
  <2>0. PICK a \in Nat, b \in Nat, c \in Nat : PlacesThree(cp, a, b, c)
    BY <1>3, <1>0, PlacesOfThree
  <2>1. /\ a < 16 /\ b < 64 /\ c < 64 /\ cp = a * 4096 + b * 64 + c
        /\ cp \div 4096 = a /\ (cp \div 64) % 64 = b /\ (cp \div 1) % 64 = c
    BY <2>0 DEF PlacesThree
  <2>2. PICK x \in Nat, y \in Nat, z \in Nat :
           /\ x = 224 + a /\ y = 128 + b /\ z = 128 + c
           /\ x \in 224..239 /\ y \in 128..191 /\ z \in 128..191
    BY <2>1
  <2>3. ~(cp <= 127) /\ ~(cp <= 2047) /\ cp <= 65535
    BY <1>0, <1>3
  <2>4. u = <<224 + cp \div 4096, Six(cp, 64), Six(cp, 1)>>
    BY <2>3, EmittedThree
  <2>5. u = <<x, y, z>>
    <3>1. Six(cp, 64) = y
      BY <2>1, <2>2 DEF Six
    <3>2. Six(cp, 1) = z
      BY <2>1, <2>2 DEF Six
    <3>3. 224 + cp \div 4096 = x
      BY <2>1, <2>2
    <3> QED
      BY <2>4, <3>1, <3>2, <3>3
  <2>6. u \in Seq(1..255) /\ Len(u) = 3 /\ u[1] = x /\ u[2] = y /\ u[3] = z
    <3>1. x \in 1..255 /\ y \in 1..255 /\ z \in 1..255
      BY <2>2
    <3> QED
      BY <2>5, <3>1
  <2>7. WorthThree(x, y, z) = cp
    BY <2>1, <2>2 DEF WorthThree
  <2>8. Three(x, y, z)
    <3>1. x = 224 => y >= 160
      BY <1>3, <2>1, <2>2
    <3>2. x = 237 => y <= 159
      BY <1>3, <2>1, <2>2 DEF CodePoint
    <3> QED
      BY <2>2, <3>1, <3>2 DEF Three
  <2>9. CharAt(u, 1, 3)
    BY <2>6, <2>8 DEF CharAt
  <2>10. Weighed(u, 1, 3) = WorthThree(x, y, z)
    BY <2>6 DEF Weighed
  <2> QED
    BY <2>6, <2>7, <2>9, <2>10 DEF Texts
<1>4. CASE 65536 <= cp /\ cp <= 1114111
  <2>0. PICK a \in Nat, b \in Nat, c \in Nat, d \in Nat : PlacesFour(cp, a, b, c, d)
    BY <1>4, <1>0, PlacesOfFour
  <2>1. /\ a < 5 /\ b < 64 /\ c < 64 /\ d < 64
        /\ cp = a * 262144 + b * 4096 + c * 64 + d
        /\ cp \div 262144 = a /\ (cp \div 4096) % 64 = b
        /\ (cp \div 64) % 64 = c /\ (cp \div 1) % 64 = d
    BY <2>0 DEF PlacesFour
  <2>2. PICK x \in Nat, y \in Nat, z \in Nat, v \in Nat :
           /\ x = 240 + a /\ y = 128 + b /\ z = 128 + c /\ v = 128 + d
           /\ x \in 240..244 /\ y \in 128..191 /\ z \in 128..191 /\ v \in 128..191
    BY <2>1
  <2>3. ~(cp <= 127) /\ ~(cp <= 2047) /\ ~(cp <= 65535)
    BY <1>0, <1>4
  <2>4. u = <<240 + cp \div 262144, Six(cp, 4096), Six(cp, 64), Six(cp, 1)>>
    BY <2>3, EmittedFour
  <2>5. u = <<x, y, z, v>>
    <3>1. Six(cp, 4096) = y
      BY <2>1, <2>2 DEF Six
    <3>2. Six(cp, 64) = z
      BY <2>1, <2>2 DEF Six
    <3>3. Six(cp, 1) = v
      BY <2>1, <2>2 DEF Six
    <3>4. 240 + cp \div 262144 = x
      BY <2>1, <2>2
    <3> QED
      BY <2>4, <3>1, <3>2, <3>3, <3>4
  <2>6. u \in Seq(1..255) /\ Len(u) = 4 /\ u[1] = x /\ u[2] = y /\ u[3] = z /\ u[4] = v
    <3>1. x \in 1..255 /\ y \in 1..255 /\ z \in 1..255 /\ v \in 1..255
      BY <2>2
    <3> QED
      BY <2>5, <3>1
  <2>7. WorthFour(x, y, z, v) = cp
    BY <2>1, <2>2 DEF WorthFour
  <2>8. Four(x, y, z, v)
    <3>1. x = 240 => y >= 144
      BY <1>4, <2>1, <2>2
    <3>2. x = 244 => y <= 143
      BY <1>4, <2>1, <2>2
    <3> QED
      BY <2>2, <3>1, <3>2 DEF Four
  <2>9. CharAt(u, 1, 4)
    BY <2>6, <2>8 DEF CharAt
  <2>10. Weighed(u, 1, 4) = WorthFour(x, y, z, v)
    BY <2>6 DEF Weighed
  <2> QED
    BY <2>6, <2>7, <2>9, <2>10 DEF Texts
<1>5. \/ cp <= 127
      \/ 128 <= cp /\ cp <= 2047
      \/ 2048 <= cp /\ cp <= 65535
      \/ 65536 <= cp /\ cp <= 1114111
  BY DEF CodePoint
<1> QED
  BY <1>1, <1>2, <1>3, <1>4, <1>5

------------------------------------------------------------------------------
LEMMA DigitReads ==
  ASSUME NEW d \in Nat, d < 16
  PROVE  DigitValue(HexDigit(d)) = d /\ HexDigit(d) \in 48..102
BY DEF DigitValue, HexDigit

Unit(x) == x \in Nat /\ x <= 65535

LEMMA PlacesOfHex ==
  ASSUME NEW x, Unit(x)
  PROVE  \E a \in Nat, b \in Nat, c \in Nat, d \in Nat : HexPlaces(x, a, b, c, d)
<1>0. x \in Nat /\ x <= 65535
  BY DEF Unit
<1>1a. PICK q \in Nat, d \in Nat : Split16(x, q, d)
  BY <1>0, By16
<1>1. d < 16 /\ x = q * 16 + d
  BY <1>1a DEF Split16
<1>2a. PICK p \in Nat, c \in Nat : Split16(q, p, c)
  BY By16, Zenon
<1>2. c < 16 /\ q = p * 16 + c
  BY <1>2a DEF Split16
<1>3a. PICK a \in Nat, b \in Nat : Split16(p, a, b)
  BY By16, Zenon
<1>3. b < 16 /\ p = a * 16 + b
  BY <1>3a DEF Split16
<1>4. x \div 16 = q /\ x % 16 = d
  BY <1>0, <1>1, Quotient
<1>5. q % 16 = c
  BY <1>2, Quotient
<1>6. p % 16 = b
  BY <1>3, Quotient
<1>7. x = a * 4096 + b * 256 + c * 16 + d
  BY <1>0, <1>1, <1>2, <1>3, SMT
<1>8. a < 16
  BY <1>0, <1>1, <1>2, <1>3, <1>7, SMT
<1>9. x \div 256 = p
  <2>1. c * 16 + d \in Nat /\ c * 16 + d < 256 /\ x = p * 256 + (c * 16 + d)
    BY <1>0, <1>1, <1>2, SMT
  <2> QED
    BY <1>0, <2>1, Quotient
<1>10. x \div 4096 = a
  <2>1. /\ b * 256 + c * 16 + d \in Nat /\ b * 256 + c * 16 + d < 4096
        /\ x = a * 4096 + (b * 256 + c * 16 + d)
    BY <1>1, <1>2, <1>3, <1>7, SMT
  <2> QED
    BY <1>0, <2>1, Quotient
<1>11. HexPlaces(x, a, b, c, d)
  BY <1>1, <1>2, <1>3, <1>4, <1>5, <1>6, <1>7, <1>8, <1>9, <1>10 DEF HexPlaces
<1> QED
  BY <1>11

(* The digits of n, from the first. *)
Nibbles(n, a, b, c, d) ==
  a = n \div 4096 /\ b = (n \div 256) % 16 /\ c = (n \div 16) % 16 /\ d = n % 16

LEMMA HexOf ==
  ASSUME NEW n, NEW a, NEW b, NEW c, NEW d, Nibbles(n, a, b, c, d)
  PROVE  /\ Hex4(n)[1] = HexDigit(a) /\ Hex4(n)[2] = HexDigit(b)
         /\ Hex4(n)[3] = HexDigit(c) /\ Hex4(n)[4] = HexDigit(d)
  BY DEF Hex4, Nibbles

(* Four digits written at k are read as the number they were written for. *)
LEMMA HexReads ==
  ASSUME NEW s, Len(s) \in Nat, NEW k \in Nat, k + 3 <= Len(s), NEW n, Unit(n),
         \A i \in 0..3 : s[k + i] = Hex4(n)[i + 1]
  PROVE  ReadHex4(s, k) = n
<1>0. PICK a \in Nat, b \in Nat, c \in Nat, d \in Nat : HexPlaces(n, a, b, c, d)
  BY PlacesOfHex, Zenon
<1>1. /\ a < 16 /\ b < 16 /\ c < 16 /\ d < 16
      /\ n = a * 4096 + b * 256 + c * 16 + d
      /\ n \div 4096 = a /\ (n \div 256) % 16 = b
      /\ (n \div 16) % 16 = c /\ n % 16 = d
  BY <1>0 DEF HexPlaces
<1>2. /\ Hex4(n)[1] = HexDigit(a) /\ Hex4(n)[2] = HexDigit(b)
      /\ Hex4(n)[3] = HexDigit(c) /\ Hex4(n)[4] = HexDigit(d)
  <2>1. Nibbles(n, a, b, c, d)
    BY <1>1 DEF Nibbles
  <2> QED
    BY <2>1, HexOf
<1>3. /\ s[k] = HexDigit(a) /\ s[k + 1] = HexDigit(b)
      /\ s[k + 2] = HexDigit(c) /\ s[k + 3] = HexDigit(d)
  <2>1. /\ s[k + 0] = Hex4(n)[0 + 1] /\ s[k + 1] = Hex4(n)[1 + 1]
        /\ s[k + 2] = Hex4(n)[2 + 1] /\ s[k + 3] = Hex4(n)[3 + 1]
    OBVIOUS
  <2>2. k + 0 = k /\ 0 + 1 = 1 /\ 1 + 1 = 2 /\ 2 + 1 = 3 /\ 3 + 1 = 4
    OBVIOUS
  <2> QED
    BY <1>2, <2>1, <2>2, Zenon
<1>4. /\ DigitValue(s[k]) = a /\ DigitValue(s[k + 1]) = b
      /\ DigitValue(s[k + 2]) = c /\ DigitValue(s[k + 3]) = d
  <2>1. a < 16 /\ b < 16 /\ c < 16 /\ d < 16
    BY <1>1
  <2>2. /\ DigitValue(HexDigit(a)) = a /\ DigitValue(HexDigit(b)) = b
        /\ DigitValue(HexDigit(c)) = c /\ DigitValue(HexDigit(d)) = d
    BY <2>1, DigitReads
  <2> QED
    BY <1>3, <2>2
<1>5. ASSUME NEW m \in k..k+3 PROVE DigitValue(Byte(s, m)) >= 0
  <2>1. m <= Len(s)
    OBVIOUS
  <2>2. Byte(s, m) = s[m]
    BY <2>1 DEF Byte
  <2>3. a >= 0 /\ b >= 0 /\ c >= 0 /\ d >= 0
    OBVIOUS
  <2>4. m = k \/ m = k + 1 \/ m = k + 2 \/ m = k + 3
    OBVIOUS
  <2>5. CASE m = k
    BY <1>4, <2>2, <2>3, <2>5
  <2>6. CASE m = k + 1
    BY <1>4, <2>2, <2>3, <2>6
  <2>7. CASE m = k + 2
    BY <1>4, <2>2, <2>3, <2>7
  <2>8. CASE m = k + 3
    BY <1>4, <2>2, <2>3, <2>8
  <2> QED
    BY <2>4, <2>5, <2>6, <2>7, <2>8
<1>6. ReadHex4(s, k) = a * 4096 + b * 256 + c * 16 + d
  BY <1>4, <1>5 DEF ReadHex4
<1> QED
  BY <1>1, <1>6

------------------------------------------------------------------------------
(***************************************************************************)
(* How a text is written, place by place.                                  *)
(***************************************************************************)

IsWritten(t, f) ==
  f = [k \in 1..Len(t)+1 |-> IF k > Len(t) THEN <<Quote>>
                             ELSE Written(t, k) \o f[k + Step(t, k)]]

WrittenFrom(t) == CHOOSE f : IsWritten(t, f)

LEMMA WriteStringIs ==
  ASSUME NEW t PROVE WriteString(t) = <<Quote>> \o WrittenFrom(t)[1]
BY Zenon DEF WriteString, WrittenFrom, IsWritten

LEMMA EscapesAre ==
  ASSUME NEW pair
  PROVE  /\ pair \in Escapes => pair \in Letters
         /\ pair \in Letters =>
              \/ pair = <<34, 34>>
              \/ pair = <<92, 92>>
              \/ pair = <<8, 98>>
              \/ pair = <<12, 102>>
              \/ pair = <<10, 110>>
              \/ pair = <<13, 114>>
              \/ pair = <<9, 116>>
              \/ pair = <<47, 47>>
BY DEF Letters, Escapes

LEMMA LettersAre ==
  ASSUME NEW pair \in Letters
  PROVE  /\ pair[1] \in Nat /\ 1 <= pair[1] /\ pair[1] <= 127
         /\ pair[2] \in Nat /\ 32 <= pair[2] /\ pair[2] <= 116 /\ pair[2] # LetterU
         /\ \A other \in Letters : other[2] = pair[2] => other[1] = pair[1]
         /\ \A other \in Letters : other[1] = pair[1] => other[2] = pair[2]
<1>1. \/ pair[1] = 34 /\ pair[2] = 34
      \/ pair[1] = 92 /\ pair[2] = 92
      \/ pair[1] = 8 /\ pair[2] = 98
      \/ pair[1] = 12 /\ pair[2] = 102
      \/ pair[1] = 10 /\ pair[2] = 110
      \/ pair[1] = 13 /\ pair[2] = 114
      \/ pair[1] = 9 /\ pair[2] = 116
      \/ pair[1] = 47 /\ pair[2] = 47
  BY EscapesAre
<1>2. ASSUME NEW other \in Letters
      PROVE  \/ other[1] = 34 /\ other[2] = 34
             \/ other[1] = 92 /\ other[2] = 92
             \/ other[1] = 8 /\ other[2] = 98
             \/ other[1] = 12 /\ other[2] = 102
             \/ other[1] = 10 /\ other[2] = 110
             \/ other[1] = 13 /\ other[2] = 114
             \/ other[1] = 9 /\ other[2] = 116
             \/ other[1] = 47 /\ other[2] = 47
  BY EscapesAre
<1>3. /\ pair[1] \in Nat /\ 1 <= pair[1] /\ pair[1] <= 127
      /\ pair[2] \in Nat /\ 32 <= pair[2] /\ pair[2] <= 116 /\ pair[2] # LetterU
  BY <1>1 DEF LetterU
<1>4. \A other \in Letters : other[2] = pair[2] => other[1] = pair[1]
  BY <1>1, <1>2
<1>5. \A other \in Letters : other[1] = pair[1] => other[2] = pair[2]
  BY <1>1, <1>2
<1> QED
  BY <1>3, <1>4, <1>5

LEMMA UnicodeIs ==
  ASSUME NEW n, Unit(n)
  PROVE  Unicode(n) \in Seq(Int) /\ Len(Unicode(n)) = 6
         /\ Unicode(n)[1] = Backslash /\ Unicode(n)[2] = LetterU
         /\ \A i \in 0..3 : Unicode(n)[3 + i] = Hex4(n)[i + 1]
<1>0. PICK a \in Nat, b \in Nat, c \in Nat, d \in Nat : HexPlaces(n, a, b, c, d)
  BY PlacesOfHex, Zenon
<1>1. Hex4(n) = <<HexDigit(a), HexDigit(b), HexDigit(c), HexDigit(d)>>
  BY <1>0 DEF Hex4, HexPlaces
<1>2. HexDigit(a) \in Int /\ HexDigit(b) \in Int /\ HexDigit(c) \in Int /\ HexDigit(d) \in Int
  BY DEF HexDigit
<1>3. PICK u, v : /\ u = <<Backslash, LetterU>>
                  /\ v = <<HexDigit(a), HexDigit(b), HexDigit(c), HexDigit(d)>>
  OBVIOUS
<1>4. u \in Seq(Int) /\ Len(u) = 2 /\ u[1] = Backslash /\ u[2] = LetterU
  BY <1>3 DEF Backslash, LetterU
<1>5. v \in Seq(Int) /\ Len(v) = 4
  BY <1>2, <1>3
<1>6. Unicode(n) = u \o v
  BY <1>1, <1>3 DEF Unicode
<1>7. /\ Unicode(n) \in Seq(Int) /\ Len(Unicode(n)) = 6
      /\ \A i \in 1..6 : Unicode(n)[i] = IF i <= 2 THEN u[i] ELSE v[i - 2]
  <2>1. /\ u \o v \in Seq(Int) /\ Len(u \o v) = Len(u) + Len(v)
        /\ \A i \in 1..Len(u)+Len(v) : (u \o v)[i] = IF i <= Len(u) THEN u[i] ELSE v[i - Len(u)]
    BY <1>4, <1>5, ConcatProperties
  <2>2. Len(u) + Len(v) = 6
    BY <1>4, <1>5
  <2> QED
    BY <1>4, <1>6, <2>1, <2>2
<1>8. \A i \in 0..3 : Unicode(n)[3 + i] = Hex4(n)[i + 1]
  <2> SUFFICES ASSUME NEW i \in 0..3 PROVE Unicode(n)[3 + i] = Hex4(n)[i + 1]
    OBVIOUS
  <2>1. 3 + i \in 1..6 /\ ~(3 + i <= 2) /\ 3 + i - 2 = i + 1
    OBVIOUS
  <2>2. Unicode(n)[3 + i] = v[i + 1]
    BY <1>7, <2>1
  <2> QED
    BY <1>1, <1>3, <2>2
<1> QED
  BY <1>4, <1>7, <1>8

LEMMA WrittenIsList ==
  ASSUME NEW t \in Texts, NEW k \in 1..Len(t)
  PROVE  Written(t, k) \in Seq(Int)
<1>1. Len(t) \in Nat /\ \A i \in 1..Len(t) : t[i] \in 1..255
  BY BytesOf
<1>2. CASE \E pair \in Escapes : pair[1] = t[k]
  <2>1. Letter(Escapes, t[k]) \in Int
    <3>1. PICK pair \in Escapes : pair = CHOOSE p \in Escapes : p[1] = t[k]
      BY <1>2
    <3>2. pair[2] \in Int
      BY EscapesAre, LettersAre
    <3> QED
      BY <3>1, <3>2 DEF Letter
  <2>2. Written(t, k) = <<Backslash, Letter(Escapes, t[k])>>
    BY <1>2 DEF Written
  <2> QED
    BY <2>1, <2>2 DEF Backslash
<1>3. CASE ~\E pair \in Escapes : pair[1] = t[k]
  <2>1. CASE t[k] \in Control
    <3>1. PICK a \in 1..31 : a = t[k]
      BY <2>1 DEF Control
    <3>2. Unit(t[k])
      <4>1. Unit(a)
        BY DEF Unit
      <4> QED
        BY <3>1, <4>1
    <3> QED
      BY <1>3, <2>1, <3>2, UnicodeIs DEF Written
  <2>2. CASE t[k] \notin Control /\ SequenceLen(t, k) = 0
    <3>1. Unit(Replacement)
      BY DEF Unit, Replacement
    <3> QED
      BY <1>3, <2>2, <3>1, UnicodeIs DEF Written
  <2>3. CASE t[k] \notin Control /\ SequenceLen(t, k) # 0
    <3>1. PICK n \in 1..4 : n = SequenceLen(t, k)
      BY <2>3, LengthIs
    <3>2. k + n - 1 <= Len(t)
      BY <3>1, LengthIs DEF CharAt
    <3>3. ASSUME NEW i \in k..k+n-1 PROVE t[i] \in Int
      <4>1. i \in 1..Len(t)
        BY <1>1, <3>2
      <4>2. PICK a \in 1..255 : a = t[i]
        BY <1>1, <4>1
      <4>3. a \in Int
        OBVIOUS
      <4> QED
        BY <4>2, <4>3
    <3>4. k \in Int /\ k + n - 1 \in Int
      OBVIOUS
    <3>5. SubSeq(t, k, k + n - 1) \in Seq(Int)
      BY <3>3, <3>4, SubSeqProperties
    <3> QED
      BY <1>3, <2>3, <3>1, <3>5 DEF Written
  <2> QED
    BY <2>1, <2>2, <2>3
<1> QED
  BY <1>2, <1>3

LEMMA WrittenExists ==
  ASSUME NEW t \in Texts
  PROVE  \E f : IsWritten(t, f) /\ f \in [1..Len(t)+1 -> Seq(Int)]
<1> DEFINE n == Len(t) + 1
           V == Seq(Int)
           stops == {k \in 1..n : k > Len(t)}
           base == [k \in 1..n |-> <<Quote>>]
           made == [k \in 1..n |-> [v \in V |->
                      (IF k > Len(t) THEN << >> ELSE Written(t, k)) \o v]]
           next == [k \in 1..n |-> k + Step(t, k)]
<1>1. Len(t) \in Nat
  BY BytesOf
<1>2. base \in [1..n -> V]
  BY DEF Quote
<1>3. made \in [1..n -> [V -> V]]
  <2>1. ASSUME NEW k \in 1..n, NEW v \in V
        PROVE  (IF k > Len(t) THEN << >> ELSE Written(t, k)) \o v \in V
    <3>1. (IF k > Len(t) THEN << >> ELSE Written(t, k)) \in Seq(Int)
      BY <1>1, WrittenIsList
    <3> QED
      BY <3>1, ConcatProperties
  <2> QED
    BY <2>1
<1>4. \A k \in 1..n : k \in stops \/ next[k] \in k+1..n
  BY <1>1, CodeIsInt
<1>5. Descent(V, n, stops, base, made, next)
  <2> HIDE DEF V, stops, base, made, next
  <2> QED
    BY <1>1, <1>2, <1>3, <1>4 DEF Descent
<1>6. PICK f \in [1..n -> V] : Descends(f, n, stops, base, made, next)
  <2> HIDE DEF V, stops, base, made, next
  <2> QED
    BY <1>5, DescentExists
<1>7. ASSUME NEW k \in 1..n
      PROVE  f[k] = IF k > Len(t) THEN <<Quote>> ELSE Written(t, k) \o f[k + Step(t, k)]
  <2>0. f[k] = IF k \in stops THEN base[k] ELSE made[k][f[next[k]]]
    BY <1>6 DEF Descends
  <2>1. CASE k > Len(t)
    BY <2>0, <2>1
  <2>2. CASE ~(k > Len(t))
    <3>1. k \in 1..Len(t) /\ k \notin stops
      BY <1>1, <2>2
    <3>2. next[k] \in k+1..n
      BY <1>4, <3>1
    <3>3. f[next[k]] \in V
      BY <1>1, <1>6, <3>2
    <3>4. f[k] = made[k][f[next[k]]]
      BY <2>0, <3>1
    <3>5. made[k][f[next[k]]] = Written(t, k) \o f[next[k]]
      BY <2>2, <3>3
    <3>6. next[k] = k + Step(t, k)
      OBVIOUS
    <3> HIDE DEF made, next, V, stops, base
    <3> QED
      BY <2>2, <3>4, <3>5, <3>6
  <2> QED
    BY <2>1, <2>2
<1>8. IsWritten(t, f)
  <2>1. f = [k \in 1..n |-> f[k]]
    BY <1>6
  <2> QED
    BY <1>7, <2>1 DEF IsWritten
<1> QED
  BY <1>6, <1>8

LEMMA WrittenUnfold ==
  ASSUME NEW t \in Texts, NEW w, w = WrittenFrom(t)
  PROVE  /\ \A k \in 1..Len(t) : w[k] = Written(t, k) \o w[k + Step(t, k)]
         /\ w[Len(t) + 1] = <<Quote>>
         /\ \A k \in 1..Len(t)+1 : w[k] \in Seq(Int)
<1>1. Len(t) \in Nat
  BY BytesOf
<1>2. IsWritten(t, w)
  BY WrittenExists, Zenon DEF WrittenFrom
<1> DEFINE g(k) == IF k > Len(t) THEN <<Quote>> ELSE Written(t, k) \o w[k + Step(t, k)]
<1>3. \A k \in 1..Len(t)+1 : w[k] = g(k)
  <2>1. w = [k \in 1..Len(t)+1 |-> g(k)]
    BY <1>2 DEF IsWritten
  <2> HIDE DEF g
  <2> QED
    BY <2>1
<1>4. ASSUME NEW k \in 1..Len(t) PROVE w[k] = Written(t, k) \o w[k + Step(t, k)]
  <2>1. k \in 1..Len(t)+1 /\ ~(k > Len(t))
    BY <1>1
  <2>2. g(k) = Written(t, k) \o w[k + Step(t, k)]
    BY <2>1
  <2>3. w[k] = g(k)
    BY <1>3, <2>1
  <2> QED
    BY <2>2, <2>3
<1>5. w[Len(t) + 1] = <<Quote>>
  <2>1. Len(t) + 1 \in 1..Len(t)+1 /\ Len(t) + 1 > Len(t)
    BY <1>1
  <2> QED
    BY <1>3, <2>1
<1> HIDE DEF g
<1> DEFINE S == {k \in 1..Len(t)+1 : w[k] \in Seq(Int)}
<1>6. ASSUME NEW k \in 1..Len(t)+1, \A j \in k+1..Len(t)+1 : j \in S PROVE k \in S
  <2>1. CASE k = Len(t) + 1
    <3>0. <<Quote>> \in Seq(Int)
      BY DEF Quote
    <3>1. w[k] \in Seq(Int)
      BY <1>5, <2>1, <3>0
    <3> QED
      BY <3>1
  <2>2. CASE k # Len(t) + 1
    <3>1. k \in 1..Len(t)
      BY <1>1, <2>2
    <3>2. k + Step(t, k) \in k+1..Len(t)+1
      BY <3>1, CodeIsInt
    <3>3. w[k + Step(t, k)] \in Seq(Int)
      BY <1>6, <3>2
    <3>4. Written(t, k) \in Seq(Int)
      BY <3>1, WrittenIsList
    <3>5. w[k] = Written(t, k) \o w[k + Step(t, k)]
      BY <1>4, <3>1
    <3>6. w[k] \in Seq(Int)
      BY <3>3, <3>4, <3>5, ConcatProperties, Zenon
    <3> QED
      BY <3>6
  <2> QED
    BY <2>1, <2>2
<1>7. S = 1..Len(t)+1
  <2>1. S \in SUBSET (1..Len(t)+1) /\ Len(t) + 1 \in Nat
    BY <1>1
  <2> HIDE DEF S
  <2> QED
    BY <1>6, <2>1, Downwards
<1> QED
  BY <1>4, <1>5, <1>7

------------------------------------------------------------------------------
(***************************************************************************)
(* How a string is read, place by place.                                   *)
(***************************************************************************)

Known(byte) == \E pair \in Letters : pair[2] = byte
Meant(byte) == (CHOOSE pair \in Letters : pair[2] = byte)[1]

ReadBody(s, f, k) ==
  IF Byte(s, k) = Quote THEN [ok |-> TRUE, text |-> << >>]
  ELSE IF Byte(s, k) = Backslash
    THEN IF Byte(s, k + 1) = LetterU
           THEN IF DecodeUnicode(s, k + 2) = Bad THEN Malformed
                ELSE Then(EmitUtf8(DecodeUnicode(s, k + 2).cp),
                          f[DecodeUnicode(s, k + 2).next])
         ELSE IF Known(Byte(s, k + 1))
           THEN Then(<<Meant(Byte(s, k + 1))>>, f[k + 2])
         ELSE Malformed
  ELSE IF Byte(s, k) < 32 THEN Malformed
  ELSE Then(<<Byte(s, k)>>, f[k + 1])

IsRead(s, f) == f = [k \in 1..Len(s)+1 |-> ReadBody(s, f, k)]

ReadFrom(s) == CHOOSE f : IsRead(s, f)

LEMMA ReadStringIs ==
  ASSUME NEW s
  PROVE  ReadString(s) = IF Byte(s, 1) = Quote THEN ReadFrom(s)[2] ELSE Malformed
BY Zenon DEF ReadString, ReadFrom, IsRead, ReadBody, Known, Meant

(* Where the reading ends, and otherwise what is read and where it goes on. *)
Ends(s, k) ==
  \/ Byte(s, k) = Quote
  \/ /\ Byte(s, k) = Backslash
     /\ \/ Byte(s, k + 1) = LetterU /\ DecodeUnicode(s, k + 2) = Bad
        \/ Byte(s, k + 1) # LetterU /\ ~Known(Byte(s, k + 1))
  \/ Byte(s, k) # Backslash /\ Byte(s, k) < 32
EndedBy(s, k) == IF Byte(s, k) = Quote THEN [ok |-> TRUE, text |-> << >>] ELSE Malformed
BytesRead(s, k) ==
  IF Byte(s, k) = Backslash
    THEN IF Byte(s, k + 1) = LetterU THEN EmitUtf8(DecodeUnicode(s, k + 2).cp)
         ELSE <<Meant(Byte(s, k + 1))>>
  ELSE <<Byte(s, k)>>
GoesOn(s, k) ==
  IF Byte(s, k) = Backslash
    THEN IF Byte(s, k + 1) = LetterU THEN DecodeUnicode(s, k + 2).next ELSE k + 2
  ELSE k + 1

LEMMA ReadBodyIs ==
  ASSUME NEW s, NEW f, NEW k
  PROVE  ReadBody(s, f, k) = IF Ends(s, k) THEN EndedBy(s, k)
                             ELSE Then(BytesRead(s, k), f[GoesOn(s, k)])
<1>1. CASE Byte(s, k) = Quote
  BY <1>1 DEF ReadBody, Ends, EndedBy
<1>2. CASE Byte(s, k) # Quote /\ Byte(s, k) = Backslash
  <2>1. CASE Byte(s, k + 1) = LetterU
    <3>1. CASE DecodeUnicode(s, k + 2) = Bad
      BY <1>2, <2>1, <3>1 DEF ReadBody, Ends, EndedBy
    <3>2. CASE DecodeUnicode(s, k + 2) # Bad
      <4>1. ~Ends(s, k)
        BY <1>2, <2>1, <3>2 DEF Ends, Quote, Backslash
      <4> QED
        BY <1>2, <2>1, <3>2, <4>1, Zenon DEF ReadBody, BytesRead, GoesOn
    <3> QED
      BY <3>1, <3>2
  <2>2. CASE Byte(s, k + 1) # LetterU
    <3>1. CASE ~Known(Byte(s, k + 1))
      BY <1>2, <2>2, <3>1 DEF ReadBody, Ends, EndedBy
    <3>2. CASE Known(Byte(s, k + 1))
      <4>1. ~Ends(s, k)
        BY <1>2, <2>2, <3>2 DEF Ends, Quote, Backslash
      <4> QED
        BY <1>2, <2>2, <3>2, <4>1, Zenon DEF ReadBody, BytesRead, GoesOn
    <3> QED
      BY <3>1, <3>2
  <2> QED
    BY <2>1, <2>2
<1>3. CASE Byte(s, k) # Quote /\ Byte(s, k) # Backslash
  <2>1. CASE Byte(s, k) < 32
    BY <1>3, <2>1 DEF ReadBody, Ends, EndedBy
  <2>2. CASE ~(Byte(s, k) < 32)
    <3>1. ~Ends(s, k)
      BY <1>3, <2>2 DEF Ends
    <3> QED
      BY <1>3, <2>2, <3>1, Zenon DEF ReadBody, BytesRead, GoesOn
  <2> QED
    BY <2>1, <2>2
<1> QED
  BY <1>1, <1>2, <1>3

LEMMA ByteAt ==
  ASSUME NEW s \in Seq(Int), NEW k \in Nat, k >= 1
  PROVE  /\ Byte(s, k) \in Int
         /\ Byte(s, k) # 0 => k <= Len(s) /\ Byte(s, k) = s[k]
BY LenProperties, ElementOfSeq DEF Byte

LEMMA DigitIs ==
  ASSUME NEW b
  PROVE  /\ b \in Int => DigitValue(b) \in Int
         /\ DigitValue(b) >= 0 => b # 0
<1>1. CASE b \in 48..57
  BY <1>1 DEF DigitValue
<1>2. CASE b \notin 48..57 /\ b \in 97..102
  BY <1>2 DEF DigitValue
<1>3. CASE b \notin 48..57 /\ b \notin 97..102 /\ b \in 65..70
  BY <1>3 DEF DigitValue
<1>4. CASE b \notin 48..57 /\ b \notin 97..102 /\ b \notin 65..70
  <2>1. DigitValue(b) = -1
    BY <1>4 DEF DigitValue
  <2> QED
    BY <2>1
<1> QED
  BY <1>1, <1>2, <1>3, <1>4

LEMMA HexIsThere ==
  ASSUME NEW s \in Seq(Int), NEW k \in Nat, k >= 1, ReadHex4(s, k) >= 0
  PROVE  k + 3 <= Len(s) /\ ReadHex4(s, k) \in Nat
<1>1. \A m \in k..k+3 : DigitValue(Byte(s, m)) >= 0
  BY DEF ReadHex4
<1>2. DigitValue(Byte(s, k + 3)) >= 0
  BY <1>1
<1>3. Byte(s, k + 3) # 0
  BY <1>2, DigitIs
<1>4. k + 3 <= Len(s)
  BY <1>3, ByteAt
<1>5. ReadHex4(s, k) \in Int
  <2>1. ASSUME NEW m \in k..k+3 PROVE DigitValue(s[m]) \in Int
    <3>1. m \in 1..Len(s)
      BY <1>4, LenProperties
    <3>2. s[m] \in Int
      BY <3>1, ElementOfSeq
    <3> QED
      BY <3>2, DigitIs
  <2>2. PICK a \in Int, b \in Int, c \in Int, d \in Int :
          /\ a = DigitValue(s[k]) /\ b = DigitValue(s[k + 1])
          /\ c = DigitValue(s[k + 2]) /\ d = DigitValue(s[k + 3])
    BY <2>1
  <2>3. ReadHex4(s, k) = a * 4096 + b * 256 + c * 16 + d
    BY <1>1, <2>2 DEF ReadHex4
  <2>4. a * 4096 + b * 256 + c * 16 + d \in Int
    OBVIOUS
  <2> QED
    BY <2>3, <2>4
<1> QED
  BY <1>4, <1>5

LEMMA DecodeIs ==
  ASSUME NEW s \in Seq(Int), NEW k \in Nat, k >= 1, DecodeUnicode(s, k) # Bad
  PROVE  /\ DecodeUnicode(s, k).cp \in Int
         /\ DecodeUnicode(s, k).next \in Nat
         /\ k < DecodeUnicode(s, k).next /\ DecodeUnicode(s, k).next <= Len(s) + 1
<1>1. PICK unit, low : unit = ReadHex4(s, k) /\ low = ReadHex4(s, k + 6)
  OBVIOUS
<1>2. Len(s) \in Nat
  BY LenProperties
<1>3. CASE unit \in High
  <2>1. /\ Byte(s, k + 4) = Backslash /\ Byte(s, k + 5) = LetterU /\ low \in Low
        /\ DecodeUnicode(s, k) = [cp |-> 65536 + (unit - 55296) * 1024 + (low - 56320), next |-> k + 10]
    BY <1>1, <1>3 DEF DecodeUnicode
  <2>2. low \in Nat /\ unit \in Nat
    BY <1>3, <2>1 DEF High, Low
  <2>3. k + 6 + 3 <= Len(s)
    BY <1>1, <2>2, HexIsThere
  <2> QED
    BY <1>2, <2>1, <2>2, <2>3
<1>4. CASE unit \notin High
  <2>1. ~(unit <= 0) /\ DecodeUnicode(s, k) = [cp |-> unit, next |-> k + 4]
    BY <1>1, <1>4 DEF DecodeUnicode
  <2>2. unit >= 0
    <3>1. CASE \A m \in k..k+3 : DigitValue(Byte(s, m)) >= 0
      <4>1. unit \in Int
        <5>1. \A m \in k..k+3 : DigitValue(s[m]) \in Int
          <6> SUFFICES ASSUME NEW m \in k..k+3 PROVE DigitValue(s[m]) \in Int
            OBVIOUS
          <6>1. Byte(s, m) # 0
            BY <3>1, DigitIs
          <6>2. s[m] \in Int
            BY <6>1, ByteAt
          <6> QED
            BY <6>2, DigitIs
        <5>2. /\ DigitValue(s[k]) \in Int /\ DigitValue(s[k + 1]) \in Int
              /\ DigitValue(s[k + 2]) \in Int /\ DigitValue(s[k + 3]) \in Int
          BY <5>1
        <5> QED
          BY <1>1, <3>1, <5>2 DEF ReadHex4
      <4> QED
        BY <2>1, <4>1
    <3>2. CASE ~\A m \in k..k+3 : DigitValue(Byte(s, m)) >= 0
      <4>1. unit = -1
        BY <1>1, <3>2 DEF ReadHex4
      <4> QED
        BY <2>1, <4>1
    <3> QED
      BY <3>1, <3>2
  <2>3. unit \in Nat /\ k + 3 <= Len(s)
    BY <1>1, <2>2, HexIsThere
  <2> QED
    BY <1>2, <2>1, <2>3
<1> QED
  BY <1>3, <1>4

LEMMA EmittedIsList ==
  ASSUME NEW cp \in Int PROVE EmitUtf8(cp) \in Seq(Int)
<1>1. PICK a \in Int, b \in Int, c \in Int :
        a = 192 + cp \div 64 /\ b = 224 + cp \div 4096 /\ c = 240 + cp \div 262144
  BY SMT
<1>2. PICK x \in Int, y \in Int, z \in Int :
        x = Six(cp, 1) /\ y = Six(cp, 64) /\ z = Six(cp, 4096)
  <2>1. Six(cp, 1) \in Int /\ Six(cp, 64) \in Int /\ Six(cp, 4096) \in Int
    BY SMT DEF Six
  <2> QED
    BY <2>1
<1>3. <<cp>> \in Seq(Int) /\ <<a, x>> \in Seq(Int) /\ <<b, y, x>> \in Seq(Int)
      /\ <<c, z, y, x>> \in Seq(Int)
  OBVIOUS
<1>4. CASE cp <= 127
  BY <1>3, <1>4, EmittedOne
<1>5. CASE ~(cp <= 127) /\ cp <= 2047
  <2>1. EmitUtf8(cp) = <<a, x>>
    BY <1>1, <1>2, <1>5, EmittedTwo
  <2> QED
    BY <1>3, <2>1
<1>6. CASE ~(cp <= 127) /\ ~(cp <= 2047) /\ cp <= 65535
  <2>1. EmitUtf8(cp) = <<b, y, x>>
    BY <1>1, <1>2, <1>6, EmittedThree
  <2> QED
    BY <1>3, <2>1
<1>7. CASE ~(cp <= 127) /\ ~(cp <= 2047) /\ ~(cp <= 65535)
  <2>1. EmitUtf8(cp) = <<c, z, y, x>>
    BY <1>1, <1>2, <1>7, EmittedFour
  <2> QED
    BY <1>3, <2>1
<1> QED
  BY <1>4, <1>5, <1>6, <1>7

LEMMA ReadsOn ==
  ASSUME NEW s \in Seq(Int), NEW k \in 1..Len(s)+1, ~Ends(s, k)
  PROVE  GoesOn(s, k) \in k+1..Len(s)+1 /\ BytesRead(s, k) \in Seq(Int)
<1>1. Len(s) \in Nat
  BY LenProperties
<1>2. CASE Byte(s, k) # Backslash
  <2>1. ~(Byte(s, k) < 32)
    BY <1>2 DEF Ends
  <2>2. Byte(s, k) # 0 /\ Byte(s, k) \in Int
    BY <2>1, ByteAt
  <2>3. k <= Len(s)
    BY <2>2, ByteAt
  <2>4. GoesOn(s, k) = k + 1 /\ BytesRead(s, k) = <<Byte(s, k)>>
    BY <1>2 DEF GoesOn, BytesRead
  <2> QED
    BY <1>1, <2>2, <2>3, <2>4
<1>3. CASE Byte(s, k) = Backslash /\ Byte(s, k + 1) = LetterU
  <2>1. DecodeUnicode(s, k + 2) # Bad
    BY <1>3 DEF Ends
  <2>2. PICK d : d = DecodeUnicode(s, k + 2)
    OBVIOUS
  <2>3. d.cp \in Int /\ d.next \in Nat /\ k + 2 < d.next /\ d.next <= Len(s) + 1
    BY <2>1, <2>2, DecodeIs
  <2>4. GoesOn(s, k) = d.next /\ BytesRead(s, k) = EmitUtf8(d.cp)
    BY <1>3, <2>2 DEF GoesOn, BytesRead
  <2>5. EmitUtf8(d.cp) \in Seq(Int)
    BY <2>3, EmittedIsList
  <2> QED
    BY <1>1, <2>3, <2>4, <2>5
<1>4. CASE Byte(s, k) = Backslash /\ Byte(s, k + 1) # LetterU
  <2>1. Known(Byte(s, k + 1))
    BY <1>4 DEF Ends
  <2>2. PICK pair \in Letters : pair = CHOOSE p \in Letters : p[2] = Byte(s, k + 1)
    BY <2>1 DEF Known
  <2>3. PICK other \in Letters : other[2] = Byte(s, k + 1)
    BY <2>1 DEF Known
  <2>4. Meant(Byte(s, k + 1)) \in Int
    <3>1. pair[1] \in Int
      BY LettersAre
    <3> QED
      BY <2>2, <3>1 DEF Meant
  <2>5. Byte(s, k + 1) # 0
    BY <2>3, LettersAre
  <2>6. k + 1 <= Len(s)
    BY <2>5, ByteAt
  <2>7. GoesOn(s, k) = k + 2 /\ BytesRead(s, k) = <<Meant(Byte(s, k + 1))>>
    BY <1>4 DEF GoesOn, BytesRead
  <2> QED
    BY <1>1, <2>4, <2>6, <2>7
<1> QED
  BY <1>2, <1>3, <1>4

Outcome == [ok : BOOLEAN, text : Seq(Int)]

LEMMA ReadExists ==
  ASSUME NEW s \in Seq(Int)
  PROVE  \E f : IsRead(s, f) /\ f \in [1..Len(s)+1 -> Outcome]
<1> DEFINE n == Len(s) + 1
           V == Outcome
           stops == {k \in 1..n : Ends(s, k)}
           base == [k \in 1..n |-> EndedBy(s, k)]
           made == [k \in 1..n |-> [v \in V |->
                      Then(IF Ends(s, k) THEN << >> ELSE BytesRead(s, k), v)]]
           next == [k \in 1..n |-> GoesOn(s, k)]
<1>1. Len(s) \in Nat
  BY LenProperties
<1>2. base \in [1..n -> V]
  BY DEF EndedBy, Malformed, Outcome
<1>3. made \in [1..n -> [V -> V]]
  <2>1. ASSUME NEW k \in 1..n, NEW v \in V
        PROVE  Then(IF Ends(s, k) THEN << >> ELSE BytesRead(s, k), v) \in V
    <3>1. PICK u : u = IF Ends(s, k) THEN << >> ELSE BytesRead(s, k)
      OBVIOUS
    <3>2. u \in Seq(Int)
      BY <3>1, ReadsOn
    <3>3. v.text \in Seq(Int)
      BY DEF Outcome
    <3>4. u \o v.text \in Seq(Int)
      BY <3>2, <3>3, ConcatProperties
    <3>5. Then(u, v) \in V
      BY <3>4 DEF Then, Malformed, Outcome
    <3> QED
      BY <3>1, <3>5
  <2> QED
    BY <2>1
<1>4. \A k \in 1..n : k \in stops \/ next[k] \in k+1..n
  BY <1>1, ReadsOn
<1>5. Descent(V, n, stops, base, made, next)
  <2> HIDE DEF V, stops, base, made, next
  <2> QED
    BY <1>1, <1>2, <1>3, <1>4 DEF Descent
<1>6. PICK f \in [1..n -> V] : Descends(f, n, stops, base, made, next)
  <2> HIDE DEF V, stops, base, made, next
  <2> QED
    BY <1>5, DescentExists
<1>7. ASSUME NEW k \in 1..n PROVE f[k] = ReadBody(s, f, k)
  <2>0. f[k] = IF k \in stops THEN base[k] ELSE made[k][f[next[k]]]
    BY <1>6 DEF Descends
  <2>1. CASE Ends(s, k)
    BY <2>0, <2>1, ReadBodyIs
  <2>2. CASE ~Ends(s, k)
    <3>2. next[k] \in k+1..n
      BY <1>4, <2>2
    <3>3. f[next[k]] \in V
      BY <1>1, <1>6, <3>2
    <3>4. f[k] = made[k][f[next[k]]]
      BY <2>0, <2>2
    <3>5. made[k][f[next[k]]] = Then(BytesRead(s, k), f[next[k]])
      BY <2>2, <3>3
    <3>6. next[k] = GoesOn(s, k)
      OBVIOUS
    <3> HIDE DEF made, next, V, stops, base
    <3>7. f[k] = Then(BytesRead(s, k), f[GoesOn(s, k)])
      BY <3>4, <3>5, <3>6
    <3> QED
      BY <2>2, <3>7, ReadBodyIs
  <2> QED
    BY <2>1, <2>2
<1>8. IsRead(s, f)
  <2>1. f = [k \in 1..n |-> f[k]]
    BY <1>6
  <2> QED
    BY <1>7, <2>1 DEF IsRead
<1> QED
  BY <1>6, <1>8

LEMMA ReadUnfold ==
  ASSUME NEW s \in Seq(Int), NEW r, r = ReadFrom(s), NEW k \in 1..Len(s)+1
  PROVE  r[k] = IF Ends(s, k) THEN EndedBy(s, k)
                ELSE Then(BytesRead(s, k), r[GoesOn(s, k)])
<1>1. IsRead(s, r)
  BY ReadExists, Zenon DEF ReadFrom
<1> DEFINE g(j) == ReadBody(s, r, j)
<1>2. r = [j \in 1..Len(s)+1 |-> g(j)]
  BY <1>1 DEF IsRead
<1> HIDE DEF g
<1>3. r[k] = g(k)
  BY <1>2
<1> QED
  BY <1>3, ReadBodyIs DEF g

------------------------------------------------------------------------------
(***************************************************************************)
(* What was written is read back.                                          *)
(***************************************************************************)

(* v is what is left of s from p on. *)
Rest(s, p, v) ==
  /\ s \in Seq(Int) /\ v \in Seq(Int) /\ p \in Nat /\ p >= 1
  /\ Len(s) + 1 = p + Len(v)
  /\ \A i \in 1..Len(v) : s[p + i - 1] = v[i]

(* u is what there is at p. *)
Begins(s, p, u) == \A i \in 1..Len(u) : s[p + i - 1] = u[i]

LEMMA RestOf ==
  ASSUME NEW s, NEW p, NEW u \in Seq(Int), NEW v \in Seq(Int), NEW x, x = u \o v,
         Rest(s, p, x)
  PROVE  /\ Rest(s, p + Len(u), v)
         /\ Begins(s, p, u)
         /\ p \in Nat /\ p >= 1 /\ Len(u) \in Nat /\ p + Len(u) <= Len(s) + 1
         /\ s \in Seq(Int) /\ Len(s) \in Nat
<1>1. Len(u) \in Nat /\ Len(v) \in Nat
  BY LenProperties
<1>3. /\ Len(x) = Len(u) + Len(v)
      /\ \A i \in 1..Len(u)+Len(v) : x[i] = IF i <= Len(u) THEN u[i] ELSE v[i - Len(u)]
  BY ConcatProperties
<1>4. /\ s \in Seq(Int) /\ p \in Nat /\ p >= 1 /\ Len(s) + 1 = p + Len(x)
      /\ \A i \in 1..Len(x) : s[p + i - 1] = x[i]
  BY DEF Rest
<1>5. Len(s) \in Nat
  BY <1>4, LenProperties
<1>6. ASSUME NEW i \in 1..Len(u) PROVE s[p + i - 1] = u[i]
  <2>1. i \in 1..Len(x) /\ i \in 1..Len(u)+Len(v) /\ i <= Len(u)
    BY <1>1, <1>3
  <2> QED
    BY <1>3, <1>4, <2>1
<1>7. ASSUME NEW i \in 1..Len(v) PROVE s[p + Len(u) + i - 1] = v[i]
  <2>0. Len(x) = Len(u) + Len(v)
    BY <1>3
  <2>1. PICK j \in Nat : j = Len(u) + i
    BY <1>1
  <2>2. j \in 1..Len(x) /\ j \in 1..Len(u)+Len(v) /\ ~(j <= Len(u)) /\ j - Len(u) = i
        /\ p + Len(u) + i - 1 = p + j - 1
    BY <1>1, <1>4, <2>0, <2>1
  <2> QED
    BY <1>3, <1>4, <2>2
<1>8. Rest(s, p + Len(u), v)
  <2>1. Len(s) + 1 = p + Len(u) + Len(v) /\ p + Len(u) \in Nat /\ p + Len(u) >= 1
    BY <1>1, <1>3, <1>4
  <2> QED
    BY <1>4, <1>7, <2>1 DEF Rest
<1>9. Begins(s, p, u)
  BY <1>6 DEF Begins
<1> QED
  BY <1>1, <1>3, <1>4, <1>5, <1>8, <1>9

(* An outcome that has the code points c. *)
Fine(o, c) == o.ok /\ o.text \in Texts /\ CodePoints(o.text) = c

LEMMA FineThen ==
  ASSUME NEW o, NEW c, Fine(o, c), NEW u \in Texts, Len(u) \in 1..4, CharAt(u, 1, Len(u)),
         NEW q, q.ok, q.text = u \o o.text
  PROVE  Fine(q, <<Weighed(u, 1, Len(u))>> \o c)
BY CharFirst DEF Fine

LEMMA ThenIs ==
  ASSUME NEW u, NEW o
  PROVE  /\ o.ok => Then(u, o) = [ok |-> TRUE, text |-> u \o o.text]
         /\ ~o.ok => Then(u, o) = Malformed
BY DEF Then

LEMMA ThenReads ==
  ASSUME NEW u, NEW o, o.ok
  PROVE  Then(u, o).ok /\ Then(u, o).text = u \o o.text
<1>1. PICK q : q = Then(u, o)
  OBVIOUS
<1>2. q = [ok |-> TRUE, text |-> u \o o.text]
  BY <1>1, ThenIs
<1>3. q.ok /\ q.text = u \o o.text
  BY <1>2
<1> QED
  BY <1>1, <1>3

(* One byte that stands for itself. *)
Plain(b) == b \in Int /\ 32 <= b /\ b # Quote /\ b # Backslash

LEMMA PlainRead ==
  ASSUME NEW s \in Seq(Int), NEW r, r = ReadFrom(s), NEW p \in 1..Len(s), Plain(s[p])
  PROVE  r[p] = Then(<<s[p]>>, r[p + 1])
<1>1. Len(s) \in Nat /\ p \in 1..Len(s)+1
  BY LenProperties
<1>2. Byte(s, p) = s[p]
  BY DEF Byte
<1>3. ~(Byte(s, p) = Backslash) /\ ~(Byte(s, p) = Quote) /\ ~(Byte(s, p) < 32)
  BY <1>2 DEF Plain
<1>4. ~Ends(s, p) /\ BytesRead(s, p) = <<s[p]>> /\ GoesOn(s, p) = p + 1
  BY <1>2, <1>3, Zenon DEF Ends, BytesRead, GoesOn
<1>5. r[p] = IF Ends(s, p) THEN EndedBy(s, p) ELSE Then(BytesRead(s, p), r[GoesOn(s, p)])
  BY <1>1, ReadUnfold, Zenon
<1> QED
  BY <1>4, <1>5, Zenon

LEMMA Associative ==
  ASSUME NEW u \in Seq(Int), NEW v \in Seq(Int), NEW x \in Seq(Int), NEW w, w = u \o v
  PROVE  u \o (v \o x) = w \o x
<1>1. (u \o v) \o x = u \o (v \o x)
  BY ConcatAssociative
<1> QED
  BY <1>1, Zenon

(* Several of them. *)
AllPlain(u) == \A i \in 1..Len(u) : Plain(u[i])

Running(s, r, p, u, v, w, o) ==
  /\ r = ReadFrom(s) /\ u \in Seq(Int) /\ v \in Seq(Int)
  /\ w = u \o v /\ Rest(s, p, w) /\ AllPlain(u)
  /\ o = r[p + Len(u)] /\ o.ok /\ o.text \in Seq(Int)

LEMMA RunRead ==
  ASSUME NEW s, NEW r, NEW p, NEW u, NEW v, NEW w, NEW o, Running(s, r, p, u, v, w, o)
  PROVE  r[p].ok /\ r[p].text = u \o o.text
<1>a. /\ r = ReadFrom(s) /\ u \in Seq(Int) /\ v \in Seq(Int)
      /\ w = u \o v /\ Rest(s, p, w) /\ AllPlain(u)
      /\ o = r[p + Len(u)] /\ o.ok /\ o.text \in Seq(Int)
  BY DEF Running
<1> USE <1>a
<1>1. /\ Begins(s, p, u)
      /\ p \in Nat /\ p >= 1 /\ Len(u) \in Nat /\ p + Len(u) <= Len(s) + 1
      /\ s \in Seq(Int) /\ Len(s) \in Nat
  BY RestOf
<1>0. s \in Seq(Int)
  BY <1>1
<1>2. PICK n \in Nat : n = Len(u)
  BY <1>1
<1>3. PICK x : x = r[p + n].text
  OBVIOUS
<1>4. x \in Seq(Int)
  BY <1>2, <1>3
<1> DEFINE Read(i) == r[p + i - 1].ok /\ r[p + i - 1].text = SubSeq(u, i, n) \o x
           S == {i \in 1..n+1 : Read(i)}
<1>5. ASSUME NEW k \in 1..n+1, \A j \in k+1..n+1 : j \in S PROVE k \in S
  <2>1. CASE k = n + 1
    <3>1. SubSeq(u, n + 1, n) = << >>
      BY <1>2, SubSeqEmpty
    <3>2. << >> \o x = x
      BY <1>4, ConcatEmptySeq
    <3>3. p + k - 1 = p + n
      BY <1>1, <2>1
    <3>4. r[p + n].ok
      BY <1>2
    <3> QED
      BY <1>3, <2>1, <3>1, <3>2, <3>3, <3>4
  <2>2. CASE k # n + 1
    <3>1. k \in 1..n /\ k \in 1..Len(u) /\ n \in k..Len(u) /\ k + 1 \in k+1..n+1
      <4>1. k \in 1..n /\ n \in k..n /\ k + 1 \in k+1..n+1
        BY <2>2
      <4> QED
        BY <1>2, <4>1
    <3>2. PICK q : q = p + k - 1
      OBVIOUS
    <3>3. q \in 1..Len(s) /\ q + 1 = p + (k + 1) - 1
      BY <1>1, <1>2, <3>1, <3>2
    <3>4. s[q] = u[k] /\ Plain(s[q])
      BY <1>1, <3>1, <3>2 DEF Begins, AllPlain
    <3>5. r[q] = Then(<<u[k]>>, r[q + 1])
      BY <1>0, <3>3, <3>4, PlainRead
    <3>6. Read(k + 1)
      BY <1>5, <3>1
    <3>7. r[q + 1].ok /\ r[q + 1].text = SubSeq(u, k + 1, n) \o x
      BY <3>3, <3>6
    <3>8. r[q].ok /\ r[q].text = <<u[k]>> \o (SubSeq(u, k + 1, n) \o x)
      <4>1. Then(<<u[k]>>, r[q + 1]).ok /\ Then(<<u[k]>>, r[q + 1]).text = <<u[k]>> \o r[q + 1].text
        BY <3>7, ThenReads, Zenon
      <4> QED
        BY <3>5, <3>7, <4>1
    <3>9. SubSeq(u, k, n) = <<u[k]>> \o SubSeq(u, k + 1, n)
      BY <3>1, SubSeqRecursiveFirst
    <3>10. <<u[k]>> \in Seq(Int) /\ SubSeq(u, k + 1, n) \in Seq(Int)
      <4>1. u[k] \in Int
        BY <3>1, ElementOfSeq
      <4>2. ASSUME NEW i \in k+1..n PROVE u[i] \in Int
        <5>1. i \in 1..Len(u)
          BY <1>2
        <5> QED
          BY <5>1, ElementOfSeq
      <4>3. k + 1 \in Int /\ n \in Int
        OBVIOUS
      <4>4. SubSeq(u, k + 1, n) \in Seq(Int)
        BY <4>2, <4>3, SubSeqProperties
      <4> QED
        BY <4>1, <4>4
    <3>11. <<u[k]>> \o (SubSeq(u, k + 1, n) \o x) = SubSeq(u, k, n) \o x
      BY <1>4, <3>9, <3>10, Associative
    <3>12. Read(k)
      BY <3>2, <3>8, <3>11
    <3> QED
      BY <3>12
  <2> QED
    BY <2>1, <2>2
<1>6. S = 1..n+1
  <2>1. S \in SUBSET (1..n+1) /\ n + 1 \in Nat
    OBVIOUS
  <2> HIDE DEF S
  <2> QED
    BY <1>5, <2>1, Downwards
<1>7. Read(1)
  <2>1. 1 \in 1..n+1
    OBVIOUS
  <2>2. 1 \in S
    BY <1>6, <2>1, Zenon
  <2> QED
    BY <2>2
<1>8. SubSeq(u, 1, n) = u
  BY <1>2, SubSeqFull
<1>9. p + 1 - 1 = p
  BY <1>1
<1> QED
  BY <1>2, <1>3, <1>7, <1>8, <1>9

LEMMA OneQuote ==
  \E u \in Seq(Int) : u = <<Quote>> /\ Len(u) = 1 /\ u[1] = Quote
<1>1. Quote \in Int
  BY DEF Quote
<1>2. PICK u : u = <<Quote>>
  OBVIOUS
<1>3. u \in Seq(Int) /\ Len(u) = 1 /\ u[1] = Quote
  BY <1>1, <1>2
<1> QED
  BY <1>2, <1>3

------------------------------------------------------------------------------
LEMMA SurrogatesAre ==
  ASSUME NEW n \in Nat
  PROVE  /\ n \in High <=> 55296 <= n /\ n <= 56319
         /\ n \in Low <=> 56320 <= n /\ n <= 57343
<1>1. n \in High <=> 55296 <= n /\ n <= 56319
  BY SMT DEF High
<1>2. n \in Low <=> 56320 <= n /\ n <= 57343
  BY SMT DEF Low
<1> QED
  BY <1>1, <1>2

LEMMA NoSurrogate ==
  ASSUME NEW n, CodePoint(n)
  PROVE  n \in Nat /\ n \notin High /\ n \notin Low /\ ~(n <= 0)
<1>1. n \in Nat /\ 1 <= n /\ ~(55296 <= n /\ n <= 57343)
  BY DEF CodePoint
<1>2. n \notin High
  BY <1>1, SurrogatesAre
<1>3. n \notin Low
  BY <1>1, SurrogatesAre
<1> QED
  BY <1>1, <1>2, <1>3

(* What the reader sees at p of a unit n written there. *)
UnitAt(s, p, n) ==
  /\ s \in Seq(Int) /\ p \in Nat /\ p >= 1 /\ Len(s) \in Nat /\ p + 6 <= Len(s) + 1
  /\ Byte(s, p) = Backslash /\ Byte(s, p + 1) = LetterU
  /\ ReadHex4(s, p + 2) = n

LEMMA UnitIsAt ==
  ASSUME NEW s \in Seq(Int), NEW p \in Nat, p >= 1, p + 6 <= Len(s) + 1,
         NEW n, Unit(n), NEW u, u = Unicode(n), Begins(s, p, u)
  PROVE  UnitAt(s, p, n)
<1>1. /\ u \in Seq(Int) /\ Len(u) = 6 /\ u[1] = Backslash /\ u[2] = LetterU
      /\ \A i \in 0..3 : u[3 + i] = Hex4(n)[i + 1]
  BY UnicodeIs
<1>2. Len(s) \in Nat
  BY LenProperties
<1>3. s[p] = Backslash /\ s[p + 1] = LetterU
  <2>1. 1 \in 1..Len(u) /\ 2 \in 1..Len(u) /\ p + 1 - 1 = p /\ p + 2 - 1 = p + 1
    BY <1>1
  <2> QED
    BY <1>1, <2>1 DEF Begins
<1>4. \A i \in 0..3 : s[p + 2 + i] = Hex4(n)[i + 1]
  <2> SUFFICES ASSUME NEW i \in 0..3 PROVE s[p + 2 + i] = Hex4(n)[i + 1]
    OBVIOUS
  <2>1. PICK j : j = 3 + i
    OBVIOUS
  <2>2. j \in 1..Len(u) /\ p + j - 1 = p + 2 + i
    <3>1. j \in 1..6 /\ Len(u) = 6
      BY <1>1, <2>1
    <3>2. p + j - 1 = p + 2 + i
      BY <2>1
    <3> QED
      BY <3>1, <3>2
  <2>3. s[p + 2 + i] = u[j]
    BY <2>2 DEF Begins
  <2> QED
    BY <1>1, <2>1, <2>3
<1>5. p + 2 \in Nat /\ p + 2 + 3 <= Len(s) /\ p <= Len(s) /\ p + 1 <= Len(s)
  BY <1>2
<1>6. ReadHex4(s, p + 2) = n
  BY <1>2, <1>4, <1>5, HexReads
<1>7. Byte(s, p) = Backslash /\ Byte(s, p + 1) = LetterU
  BY <1>3, <1>5 DEF Byte
<1> QED
  BY <1>2, <1>6, <1>7 DEF UnitAt

(* How the reader goes on behind a unit, and where it ends. *)
LEMMA EscapeStep ==
  ASSUME NEW s, NEW r, r = ReadFrom(s), NEW p, NEW n, UnitAt(s, p, n),
         NEW d, d = DecodeUnicode(s, p + 2)
  PROVE  /\ d = Bad => ~r[p].ok
         /\ d # Bad => r[p] = Then(EmitUtf8(d.cp), r[d.next])
<1>1. /\ s \in Seq(Int) /\ p \in Nat /\ p >= 1 /\ Len(s) \in Nat /\ p + 6 <= Len(s) + 1
      /\ Byte(s, p) = Backslash /\ Byte(s, p + 1) = LetterU
  BY DEF UnitAt
<1>2. p \in 1..Len(s)+1
  BY <1>1
<1>3. Byte(s, p) # Quote
  BY <1>1 DEF Quote, Backslash
<1>4. CASE d = Bad
  <2>1. Ends(s, p)
    BY <1>1, <1>4 DEF Ends
  <2>2. EndedBy(s, p) = Malformed
    BY <1>3 DEF EndedBy
  <2>3. r[p] = Malformed
    BY <1>1, <1>2, <2>1, <2>2, ReadUnfold
  <2> QED
    BY <1>4, <2>3 DEF Malformed
<1>5. CASE d # Bad
  <2>1. ~Ends(s, p)
    BY <1>1, <1>3, <1>5 DEF Ends, Quote, Backslash
  <2>2. BytesRead(s, p) = EmitUtf8(d.cp) /\ GoesOn(s, p) = d.next
    BY <1>1, <1>5 DEF BytesRead, GoesOn
  <2>3. r[p] = Then(EmitUtf8(d.cp), r[d.next])
    BY <1>1, <1>2, <2>1, <2>2, ReadUnfold
  <2> QED
    BY <1>5, <2>3
<1> QED
  BY <1>4, <1>5

LEMMA EscapeGoes ==
  ASSUME NEW s, NEW r, r = ReadFrom(s), NEW p, NEW n, UnitAt(s, p, n), CodePoint(n)
  PROVE  r[p] = Then(EmitUtf8(n), r[p + 6])
<1>1. p \in Nat /\ ReadHex4(s, p + 2) = n
  BY DEF UnitAt
<1>2. n \in Nat /\ n \notin High /\ ~(n <= 0 \/ n \in Low)
  BY NoSurrogate
<1>3. PICK d : d = DecodeUnicode(s, p + 2)
  OBVIOUS
<1>4. d = [cp |-> n, next |-> p + 6]
  <2>1. d = [cp |-> n, next |-> p + 2 + 4]
    BY <1>1, <1>2, <1>3 DEF DecodeUnicode
  <2>2. p + 2 + 4 = p + 6
    BY <1>1
  <2> QED
    BY <2>1, <2>2
<1>5. d.cp = n /\ d.next = p + 6
  BY <1>4
<1>6. d # Bad
  BY <1>1, <1>5 DEF Bad
<1> QED
  BY <1>3, <1>5, <1>6, EscapeStep

(* A code point in front of what was read, and of what could not be. *)
LEMMA EmitStep ==
  ASSUME NEW o, NEW c, NEW n, CodePoint(n), NEW q, q = Then(EmitUtf8(n), o)
  PROVE  /\ Fine(o, c) => Fine(q, <<n>> \o c)
         /\ ~o.ok => ~q.ok
<1>1. PICK u : u = EmitUtf8(n)
  OBVIOUS
<1>2. u \in Texts /\ Len(u) \in 1..4 /\ CharAt(u, 1, Len(u)) /\ Weighed(u, 1, Len(u)) = n
  BY <1>1, EmittedIsChar
<1>3. ASSUME Fine(o, c) PROVE Fine(q, <<n>> \o c)
  <2>1. o.ok
    BY <1>3 DEF Fine
  <2>2. Then(u, o).ok /\ Then(u, o).text = u \o o.text
    BY <2>1, ThenReads, Zenon
  <2>3. q.ok /\ q.text = u \o o.text
    BY <1>1, <2>2
  <2>4. Fine(q, <<Weighed(u, 1, Len(u))>> \o c)
    BY <1>2, <1>3, <2>3, FineThen
  <2> QED
    BY <1>2, <2>4
<1>4. ASSUME ~o.ok PROVE ~q.ok
  <2>1. q = Malformed
    BY <1>4, ThenIs
  <2> QED
    BY <2>1 DEF Malformed
<1> QED
  BY <1>3, <1>4

LEMMA EscapeRead ==
  ASSUME NEW s, NEW r, r = ReadFrom(s), NEW p, NEW n, Unit(n), CodePoint(n),
         NEW v \in Seq(Int),
         NEW w, w = Unicode(n) \o v, Rest(s, p, w),
         NEW c, Fine(r[p + 6], c)
  PROVE  Fine(r[p], <<n>> \o c)
<1>1. PICK u : u = Unicode(n)
  OBVIOUS
<1>2. u \in Seq(Int) /\ Len(u) = 6 /\ w = u \o v
  BY <1>1, UnicodeIs
<1>3. /\ Begins(s, p, u) /\ p \in Nat /\ p >= 1 /\ p + Len(u) <= Len(s) + 1
      /\ s \in Seq(Int)
  BY <1>2, RestOf
<1>4. UnitAt(s, p, n)
  <2>1. p + 6 <= Len(s) + 1
    BY <1>2, <1>3
  <2> QED
    BY <1>1, <1>3, <2>1, UnitIsAt
<1>5. r[p] = Then(EmitUtf8(n), r[p + 6])
  BY <1>4, EscapeGoes
<1> QED
  BY <1>5, EmitStep

LEMMA LetterRead ==
  ASSUME NEW s, NEW r, r = ReadFrom(s), NEW p, NEW pair \in Letters,
         NEW v \in Seq(Int), NEW w, w = <<Backslash, pair[2]>> \o v, Rest(s, p, w),
         NEW c, Fine(r[p + 2], c)
  PROVE  Fine(r[p], <<pair[1]>> \o c)
<1>1. PICK a \in Nat, b \in Nat : a = pair[1] /\ b = pair[2]
  BY LettersAre
<1>2. 1 <= a /\ a <= 127 /\ b # LetterU
  BY <1>1, LettersAre
<1>3. PICK u : u = <<Backslash, b>>
  OBVIOUS
<1>4. u \in Seq(Int) /\ Len(u) = 2 /\ u[1] = Backslash /\ u[2] = b
  BY <1>3 DEF Backslash
<1>5. /\ Begins(s, p, u)
      /\ p \in Nat /\ p >= 1 /\ p + Len(u) <= Len(s) + 1
      /\ s \in Seq(Int) /\ Len(s) \in Nat
  <2>1. w = u \o v
    BY <1>1, <1>3
  <2> QED
    BY <1>4, <2>1, RestOf
<1>6. s[p] = Backslash /\ s[p + 1] = b
  <2>1. 1 \in 1..Len(u) /\ 2 \in 1..Len(u) /\ p + 1 - 1 = p /\ p + 2 - 1 = p + 1
    BY <1>4, <1>5
  <2> QED
    BY <1>4, <1>5, <2>1 DEF Begins
<1>7. p <= Len(s) /\ p + 1 <= Len(s) /\ p \in 1..Len(s)+1
  BY <1>4, <1>5
<1>8. Byte(s, p) = Backslash /\ Byte(s, p + 1) = b
  BY <1>6, <1>7 DEF Byte
<1>9. Known(b)
  BY <1>1 DEF Known
<1>10. Meant(b) = a
  <2>1. PICK other \in Letters : other[2] = b /\ other = CHOOSE q \in Letters : q[2] = b
    BY <1>9 DEF Known
  <2>2. other[1] = a
    BY <1>1, <2>1, LettersAre
  <2> QED
    BY <2>1, <2>2 DEF Meant
<1>11. ~Ends(s, p)
  BY <1>2, <1>8, <1>9 DEF Ends, Quote, Backslash
<1>12. BytesRead(s, p) = <<a>> /\ GoesOn(s, p) = p + 2
  BY <1>2, <1>8, <1>10 DEF BytesRead, GoesOn
<1>13. r[p] = Then(<<a>>, r[p + 2])
  BY <1>5, <1>7, <1>11, <1>12, ReadUnfold
<1>14. r[p].ok /\ r[p].text = <<a>> \o r[p + 2].text
  <2>1. r[p + 2].ok
    BY DEF Fine
  <2>2. Then(<<a>>, r[p + 2]).ok /\ Then(<<a>>, r[p + 2]).text = <<a>> \o r[p + 2].text
      BY <2>1, ThenReads, Zenon
  <2> QED
    BY <1>13, <2>2
<1>15. /\ <<a>> \in Texts /\ Len(<<a>>) = 1 /\ CharAt(<<a>>, 1, 1) /\ Weighed(<<a>>, 1, 1) = a
  <2>1. a \in 1..255 /\ a < 128
    BY <1>2
  <2>2. PICK t : t = <<a>>
    OBVIOUS
  <2>3. t \in Seq(1..255) /\ Len(t) = 1 /\ t[1] = a
    BY <2>1, <2>2
  <2> QED
    BY <2>1, <2>2, <2>3 DEF Texts, CharAt, Weighed
<1>16. PICK t : t = <<a>>
  OBVIOUS
<1>17. t \in Texts /\ Len(t) \in 1..4 /\ CharAt(t, 1, Len(t)) /\ Weighed(t, 1, Len(t)) = a
  BY <1>15, <1>16
<1>18. r[p].ok /\ r[p].text = t \o r[p + 2].text
  BY <1>14, <1>16
<1>19. Fine(r[p], <<Weighed(t, 1, Len(t))>> \o c)
  BY <1>17, <1>18, FineThen
<1> QED
  BY <1>1, <1>17, <1>19

LEMMA TextsAreLists ==
  ASSUME NEW t \in Texts PROVE t \in Seq(Int)
<1>1. Len(t) \in Nat /\ \A i \in 1..Len(t) : t[i] \in 1..255
  BY BytesOf
<1>2. ASSUME NEW i \in 1..Len(t) PROVE t[i] \in Int
  <2>1. PICK a \in 1..255 : a = t[i]
    BY <1>1
  <2>2. a \in Int
    OBVIOUS
  <2> QED
    BY <2>1, <2>2
<1>3. 1 \in Int /\ Len(t) \in Int
  BY <1>1
<1>4. SubSeq(t, 1, Len(t)) \in Seq(Int)
  BY <1>2, <1>3, SubSeqProperties
<1>5. SubSeq(t, 1, Len(t)) = t
  BY SubSeqFull DEF Texts
<1> QED
  BY <1>4, <1>5

LEMMA LongAreLarge ==
  ASSUME NEW a \in Int, NEW b \in Int, NEW c \in Int, NEW d \in Int
  PROVE  /\ Two(a, b) => a >= 128 /\ b >= 128
         /\ Three(a, b, c) => a >= 128 /\ b >= 128 /\ c >= 128
         /\ Four(a, b, c, d) => a >= 128 /\ b >= 128 /\ c >= 128 /\ d >= 128
<1>1. Two(a, b) => a >= 128 /\ b >= 128
  BY DEF Two
<1>2. Three(a, b, c) => a >= 128 /\ b >= 128 /\ c >= 128
  BY DEF Three
<1>3. Four(a, b, c, d) => a >= 128 /\ b >= 128 /\ c >= 128 /\ d >= 128
  BY DEF Four
<1> QED
  BY <1>1, <1>2, <1>3

(* u is the character of n bytes at k. *)
PartOf(t, k, n, u) ==
  /\ u \in Texts /\ Len(u) = n /\ CharAt(u, 1, n) /\ Weighed(u, 1, n) = Weighed(t, k, n)
  /\ \A i \in 1..n : u[i] \in Int /\ u[i] = t[k + i - 1] /\ (n > 1 => u[i] >= 128)

(* The bytes of a character by themselves are that character. *)
LEMMA PartIsChar ==
  ASSUME NEW t \in Texts, NEW k \in 1..Len(t), NEW n \in 1..4, CharAt(t, k, n),
         NEW u, u = SubSeq(t, k, k + n - 1)
  PROVE  PartOf(t, k, n, u)
<1>0. Len(t) \in Nat /\ \A i \in 1..Len(t) : t[i] \in 1..255
  BY BytesOf
<1>1. k + n - 1 <= Len(t)
  BY DEF CharAt
<1>2. ASSUME NEW i \in k..k+n-1 PROVE t[i] \in 1..255
  <2>1. i \in 1..Len(t)
    BY <1>0, <1>1
  <2> QED
    BY <1>0, <2>1
<1>3. k \in Int /\ k + n - 1 \in Int /\ k <= k + n - 1 /\ k + n - 1 - k + 1 = n
  OBVIOUS
<1>4. u \in Texts /\ Len(u) = n /\ \A i \in 1..n : u[i] = t[k + i - 1]
  <2>1. /\ u \in Seq(1..255)
        /\ Len(u) = IF k <= k + n - 1 THEN k + n - 1 - k + 1 ELSE 0
        /\ \A i \in 1..k+n-1-k+1 : u[i] = t[k + i - 1]
    BY <1>2, <1>3, SubSeqProperties
  <2> QED
    BY <1>3, <2>1 DEF Texts
<1>5. u[1] = t[k]
  <2>1. 1 \in 1..n /\ k + 1 - 1 = k
    OBVIOUS
  <2> QED
    BY <1>4, <2>1
<1>6. n >= 2 => u[1 + 1] = t[k + 1]
  <2>1. n >= 2 => 2 \in 1..n /\ k + 2 - 1 = k + 1 /\ 1 + 1 = 2
    OBVIOUS
  <2> QED
    BY <1>4, <2>1
<1>7. n >= 3 => u[1 + 2] = t[k + 2]
  <2>1. n >= 3 => 3 \in 1..n /\ k + 3 - 1 = k + 2 /\ 1 + 2 = 3
    OBVIOUS
  <2> QED
    BY <1>4, <2>1
<1>8. n = 4 => u[1 + 3] = t[k + 3]
  <2>1. n = 4 => 4 \in 1..n /\ k + 4 - 1 = k + 3 /\ 1 + 3 = 4
    OBVIOUS
  <2> QED
    BY <1>4, <2>1
<1>9. CharAt(u, 1, n) /\ Weighed(u, 1, n) = Weighed(t, k, n)
  <2>1. 1 + n - 1 <= Len(u)
    BY <1>4
  <2>2. CASE n = 1
    BY <1>5, <2>1, <2>2 DEF CharAt, Weighed
  <2>3. CASE n = 2
    BY <1>5, <1>6, <2>1, <2>3 DEF CharAt, Weighed
  <2>4. CASE n = 3
    BY <1>5, <1>6, <1>7, <2>1, <2>4 DEF CharAt, Weighed
  <2>5. CASE n = 4
    BY <1>5, <1>6, <1>7, <1>8, <2>1, <2>5 DEF CharAt, Weighed
  <2> QED
    BY <2>2, <2>3, <2>4, <2>5
<1>9a. \A i \in 1..n : u[i] \in Int
  BY <1>4, TextsAreLists, ElementOfSeq
<1>10. ASSUME NEW i \in 1..n PROVE u[i] \in Int /\ (n > 1 => u[i] >= 128)
  <2>1. u[i] \in Int
    BY <1>4, TextsAreLists, ElementOfSeq
  <2>2. CASE n = 1
    BY <2>1, <2>2
  <2>3. CASE n = 2
    <3>1. Two(u[1], u[2])
      BY <1>9, <2>3 DEF CharAt
    <3>2. u[1] >= 128 /\ u[2] >= 128
      <4>1. u[1] \in Int /\ u[2] \in Int
        BY <1>9a, <2>3
      <4> QED
        BY <3>1, <4>1, LongAreLarge
    <3> QED
      BY <2>1, <2>3, <3>2
  <2>4. CASE n = 3
    <3>1. Three(u[1], u[2], u[3])
      BY <1>9, <2>4 DEF CharAt
    <3>2. u[1] >= 128 /\ u[2] >= 128 /\ u[3] >= 128
      <4>1. u[1] \in Int /\ u[2] \in Int /\ u[3] \in Int
        BY <1>9a, <2>4
      <4> QED
        BY <3>1, <4>1, LongAreLarge
    <3> QED
      BY <2>1, <2>4, <3>2
  <2>5. CASE n = 4
    <3>1. Four(u[1], u[2], u[3], u[4])
      BY <1>9, <2>5 DEF CharAt
    <3>2. u[1] >= 128 /\ u[2] >= 128 /\ u[3] >= 128 /\ u[4] >= 128
      <4>1. u[1] \in Int /\ u[2] \in Int /\ u[3] \in Int /\ u[4] \in Int
        BY <1>9a, <2>5
      <4> QED
        BY <3>1, <4>1, LongAreLarge
    <3> QED
      BY <2>1, <2>5, <3>2
  <2> QED
    BY <2>2, <2>3, <2>4, <2>5
<1> QED
  BY <1>4, <1>9, <1>10 DEF PartOf

LEMMA EscapedBytes ==
  ASSUME NEW b PROVE (b = 34 \/ b = 92) => \E pair \in Escapes : pair[1] = b
<1>1. <<34, 34>> \in Escapes /\ <<92, 92>> \in Escapes
  BY DEF Escapes
<1>2. PICK x, y : x = <<34, 34>> /\ y = <<92, 92>>
  OBVIOUS
<1>3. x \in Escapes /\ y \in Escapes /\ x[1] = 34 /\ y[1] = 92
  BY <1>1, <1>2
<1> QED
  BY <1>3

LEMMA CharReads ==
  ASSUME NEW s, NEW r, r = ReadFrom(s), NEW p,
         NEW u \in Texts, AllPlain(u), Len(u) \in 1..4, CharAt(u, 1, Len(u)),
         NEW v \in Seq(Int), NEW x, x = u \o v, Rest(s, p, x),
         NEW c, Fine(r[p + Len(u)], c)
  PROVE  Fine(r[p], <<Weighed(u, 1, Len(u))>> \o c)
<1>1. PICK o : o = r[p + Len(u)]
  OBVIOUS
<1>2. u \in Seq(Int)
  BY TextsAreLists
<1>3. o.ok /\ o.text \in Texts
  BY <1>1 DEF Fine
<1>4. o.text \in Seq(Int)
  BY <1>3, TextsAreLists
<1>5. r[p].ok /\ r[p].text = u \o o.text
  <2>1. Running(s, r, p, u, v, x, o)
    BY <1>1, <1>2, <1>3, <1>4 DEF Running
  <2> QED
    BY <2>1, RunRead
<1>6. Fine(o, c)
  BY <1>1
<1> QED
  BY <1>5, <1>6, FineThen

(* What is there of one character, or of one byte, is read as its code point. *)
LEMMA StepReads ==
  ASSUME NEW t \in Texts, NEW k \in 1..Len(t), NEW s, NEW r, r = ReadFrom(s), NEW p,
         NEW u, u = Written(t, k), NEW v \in Seq(Int), NEW x, x = u \o v, Rest(s, p, x),
         NEW c, Fine(r[p + Len(u)], c)
  PROVE  Fine(r[p], <<CodeAt(t, k)>> \o c)
<1>0. Len(t) \in Nat /\ t[k] \in 1..255
  BY BytesOf
<1>1. PICK a \in 1..255 : a = t[k]
  BY <1>0
<1>2. a < 128 => CodeAt(t, k) = a
  <2>1. ASSUME a < 128 PROVE CodeAt(t, k) = a
    <3>1. CharAt(t, k, 1)
      BY <1>1, <2>1 DEF CharAt
    <3>2. CodeAt(t, k) = Weighed(t, k, 1)
      BY <3>1, CodeIs
    <3> QED
      BY <1>1, <3>2 DEF Weighed
  <2> QED
    BY <2>1
<1>3. CASE \E pair \in Escapes : pair[1] = t[k]
  <2>1. PICK pair \in Escapes : pair[1] = t[k] /\ pair = CHOOSE q \in Escapes : q[1] = t[k]
    BY <1>3
  <2>2. pair \in Letters
    BY EscapesAre
  <2>3. u = <<Backslash, pair[2]>>
    BY <1>3, <2>1 DEF Written, Letter
  <2>4. Len(u) = 2
    BY <2>3
  <2>5. Fine(r[p + 2], c)
    BY <2>4
  <2>6. Fine(r[p], <<pair[1]>> \o c)
    BY <2>2, <2>3, <2>5, LetterRead
  <2>7. pair[1] <= 127
    BY <2>2, LettersAre
  <2>8. a < 128
    BY <1>1, <2>1, <2>7
  <2> QED
    BY <1>1, <1>2, <2>1, <2>6, <2>8
<1>4. CASE (~\E pair \in Escapes : pair[1] = t[k]) /\ t[k] \in Control
  <2>1. u = Unicode(a)
    BY <1>1, <1>4 DEF Written
  <2>2. a < 32
    <3>1. a \in 1..31
      BY <1>1, <1>4 DEF Control
    <3> QED
      BY <3>1
  <2>3. Unit(a) /\ CodePoint(a) /\ a < 128
    BY <2>2 DEF Unit, CodePoint
  <2>4. Len(u) = 6
    BY <2>1, <2>3, UnicodeIs
  <2>5. Fine(r[p + 6], c)
    BY <2>4
  <2>6. Fine(r[p], <<a>> \o c)
    BY <2>1, <2>3, <2>5, EscapeRead
  <2> QED
    BY <1>2, <2>3, <2>6
<1>5. CASE (~\E pair \in Escapes : pair[1] = t[k]) /\ t[k] \notin Control /\ SequenceLen(t, k) = 0
  <2>1. u = Unicode(Replacement)
    BY <1>5 DEF Written
  <2>2. Unit(Replacement) /\ CodePoint(Replacement)
    BY DEF Unit, CodePoint, Replacement
  <2>3. Len(u) = 6
    BY <2>1, <2>2, UnicodeIs
  <2>4. Fine(r[p + 6], c)
    BY <2>3
  <2>5. Fine(r[p], <<Replacement>> \o c)
    BY <2>1, <2>2, <2>4, EscapeRead, ZenonT(40)
  <2>6. CodeAt(t, k) = Replacement
    BY <1>5 DEF CodeAt
  <2> QED
    BY <2>5, <2>6
<1>6. CASE (~\E pair \in Escapes : pair[1] = t[k]) /\ t[k] \notin Control /\ SequenceLen(t, k) # 0
  <2>1. PICK n \in 1..4 : n = SequenceLen(t, k)
    BY <1>6, LengthIs
  <2>2. CharAt(t, k, n)
    BY <2>1, LengthIs
  <2>3. u = SubSeq(t, k, k + n - 1)
    BY <1>6, <2>1 DEF Written
  <2>4. /\ u \in Texts /\ Len(u) = n /\ CharAt(u, 1, n) /\ Weighed(u, 1, n) = Weighed(t, k, n)
        /\ \A i \in 1..n : u[i] \in Int /\ u[i] = t[k + i - 1] /\ (n > 1 => u[i] >= 128)
    <3>1. PartOf(t, k, n, u)
      BY <2>2, <2>3, PartIsChar, Zenon
    <3> QED
      BY <3>1 DEF PartOf
  <2>5a. ASSUME NEW i \in 1..Len(u) PROVE Plain(u[i])
    <3>1. PICK b \in Int : b = u[i]
      BY <2>4
    <3>2. CASE n > 1
      <4>1. b >= 128
        BY <2>4, <3>1, <3>2
      <4>2. Plain(b)
        BY <4>1 DEF Plain, Quote, Backslash
      <4> QED
        BY <3>1, <4>2
    <3>3. CASE n = 1
      <4>1. i = 1
        BY <2>4, <3>3
      <4>2. b = a
        <5>1. k + 1 - 1 = k /\ 1 \in 1..n
          OBVIOUS
        <5>2. u[1] = t[k]
          BY <2>4, <5>1
        <5> QED
          BY <1>1, <3>1, <4>1, <5>2
      <4>3a. a \notin 1..31
        BY <1>1, <1>6 DEF Control
      <4>3. t[k] # 34 /\ t[k] # 92
        BY <1>6, EscapedBytes
      <4>3b. a # 34 /\ a # 92 /\ 32 <= a
        <5>1. a # 34 /\ a # 92
          BY <1>1, <4>3
        <5>2. 32 <= a
          BY <4>3a
        <5> QED
          BY <5>1, <5>2
      <4>4. Plain(a)
        BY <4>3b DEF Plain, Quote, Backslash
      <4> QED
        BY <3>1, <4>2, <4>4
    <3> QED
      BY <3>2, <3>3
  <2>5. AllPlain(u)
    BY <2>5a DEF AllPlain
  <2>6. Len(u) \in 1..4 /\ CharAt(u, 1, Len(u)) /\ u \in Texts
    BY <2>4
  <2>9. Fine(r[p], <<Weighed(u, 1, Len(u))>> \o c)
    BY <2>5, <2>6, CharReads
  <2>10. CodeAt(t, k) = Weighed(t, k, n)
    BY <2>2, CodeIs
  <2> QED
    BY <2>4, <2>9, <2>10
<1> QED
  BY <1>3, <1>4, <1>5, <1>6

LEMMA EmptyText ==
  << >> \in Texts /\ CodePoints(<< >>) = << >>
<1>1. << >> \in Texts
  BY DEF Texts
<1>2. PICK t \in Texts : t = << >>
  BY <1>1
<1>3. Len(t) = 0
  BY <1>2
<1>4. PointsFrom(t)[Len(t) + 1] = << >>
  BY PointsUnfold
<1>5. PointsFrom(t)[1] = << >>
  BY <1>3, <1>4
<1> QED
  BY <1>2, <1>5, CodePointsAre

(* The closing quote. *)
LEMMA QuoteReads ==
  ASSUME NEW s, NEW r, r = ReadFrom(s), NEW p, NEW v \in Seq(Int), NEW x,
         x = <<Quote>> \o v, Rest(s, p, x)
  PROVE  Fine(r[p], << >>)
<1>1. PICK u \in Seq(Int) : u = <<Quote>> /\ Len(u) = 1 /\ u[1] = Quote
  BY OneQuote
<1>2. /\ Begins(s, p, u) /\ p \in Nat /\ p >= 1 /\ p + Len(u) <= Len(s) + 1
      /\ s \in Seq(Int) /\ Len(s) \in Nat
  BY <1>1, RestOf
<1>3. s[p] = Quote /\ p <= Len(s) /\ p \in 1..Len(s)+1
  <2>1. 1 \in 1..Len(u) /\ p + 1 - 1 = p
    BY <1>1, <1>2
  <2>2. s[p] = Quote
    BY <1>1, <1>2, <2>1 DEF Begins
  <2> QED
    BY <1>1, <1>2, <2>2
<1>4. Byte(s, p) = Quote
  BY <1>3 DEF Byte
<1>5. r[p] = [ok |-> TRUE, text |-> << >>]
  <2>1. Ends(s, p) /\ EndedBy(s, p) = [ok |-> TRUE, text |-> << >>]
    BY <1>4 DEF Ends, EndedBy
  <2> QED
    BY <1>2, <1>3, <2>1, ReadUnfold
<1> QED
  BY <1>5, EmptyText DEF Fine

LEMMA WrittenReads ==
  ASSUME NEW t \in Texts, NEW w, w = WrittenFrom(t), NEW c, c = PointsFrom(t),
         NEW s, NEW r, r = ReadFrom(s), NEW k \in 1..Len(t)+1, NEW p, Rest(s, p, w[k])
  PROVE  Fine(r[p], c[k])
<1> DEFINE n == Len(t) + 1
           Reads(j) == \A q : Rest(s, q, w[j]) => Fine(r[q], c[j])
           S == {j \in 1..n : Reads(j)}
<1>1. Len(t) \in Nat
  BY BytesOf
<1>2. ASSUME NEW m \in 1..n, \A j \in m+1..n : j \in S PROVE m \in S
  <2>1. CASE m = n
    <3>1. w[m] = <<Quote>> /\ c[m] = << >>
      BY <1>1, <2>1, WrittenUnfold, PointsUnfold
    <3>2. ASSUME NEW q, Rest(s, q, w[m]) PROVE Fine(r[q], c[m])
      <4>1. << >> \in Seq(Int) /\ <<Quote>> \in Seq(Int)
        BY DEF Quote
      <4>2. <<Quote>> = <<Quote>> \o << >>
        BY <4>1, ConcatEmptySeq
      <4>3. w[m] = <<Quote>> \o << >>
        BY <3>1, <4>2
      <4>4. Fine(r[q], << >>)
        BY <3>2, <4>1, <4>3, QuoteReads
      <4> QED
        BY <3>1, <4>4
    <3> QED
      BY <3>2
  <2>2. CASE m # n
    <3>1. m \in 1..Len(t)
      BY <1>1, <2>2
    <3>2. PICK d : d = Step(t, m)
      OBVIOUS
    <3>3. m + d \in m+1..n
      BY <3>1, <3>2, CodeIsInt
    <3>4. PICK u : u = Written(t, m)
      OBVIOUS
    <3>5. PICK v : v = w[m + d]
      OBVIOUS
    <3>6. w[m] = u \o v /\ c[m] = <<CodeAt(t, m)>> \o c[m + d] /\ v \in Seq(Int)
      <4>1. w[m] = u \o v
        BY <3>1, <3>2, <3>4, <3>5, WrittenUnfold
      <4>2. c[m] = <<CodeAt(t, m)>> \o c[m + d]
        BY <3>1, <3>2, PointsUnfold
      <4>3. m + d \in 1..n
        BY <3>1, <3>3
      <4>4. v \in Seq(Int)
        BY <3>5, <4>3, WrittenUnfold
      <4> QED
        BY <4>1, <4>2, <4>4
    <3>7. u \in Seq(Int)
      BY <3>1, <3>4, WrittenIsList
    <3>8. ASSUME NEW q, Rest(s, q, w[m]) PROVE Fine(r[q], c[m])
      <4>1. Rest(s, q + Len(u), v)
        BY <3>6, <3>7, <3>8, RestOf
      <4>2. Reads(m + d)
        BY <1>2, <3>3
      <4>3. Fine(r[q + Len(u)], c[m + d])
        BY <3>5, <4>1, <4>2
      <4>4. Fine(r[q], <<CodeAt(t, m)>> \o c[m + d])
        BY <3>1, <3>4, <3>6, <3>8, <4>3, StepReads
      <4> QED
        BY <3>6, <4>4
    <3> QED
      BY <3>8
  <2> QED
    BY <2>1, <2>2
<1>3. S = 1..n
  <2>1. S \in SUBSET (1..n) /\ n \in Nat
    BY <1>1
  <2> HIDE DEF S, n
  <2> QED
    BY <1>2, <2>1, Downwards
<1>4. Reads(k)
  BY <1>3
<1> QED
  BY <1>4

(* What is written of a text is read back as a text of the same code points. *)
LEMMA WrittenReadsBack ==
  ASSUME NEW t \in Texts
  PROVE  Fine(ReadString(WriteString(t)), CodePoints(t))
<1>1. PICK w, c : w = WrittenFrom(t) /\ c = PointsFrom(t)
  OBVIOUS
<1>2. PICK s : s = WriteString(t)
  OBVIOUS
<1>3. s = <<Quote>> \o w[1]
  BY <1>1, <1>2, WriteStringIs
<1>4. 1 \in 1..Len(t)+1
  BY BytesOf
<1>5. w[1] \in Seq(Int)
  BY <1>1, <1>4, WrittenUnfold
<1>6. PICK u \in Seq(Int) : u = <<Quote>> /\ Len(u) = 1 /\ u[1] = Quote
  BY OneQuote
<1>7. s \in Seq(Int) /\ Rest(s, 1, s)
  <2>1. s \in Seq(Int)
    BY <1>3, <1>5, <1>6, ConcatProperties
  <2>2. Len(s) \in Nat /\ \A i \in 1..Len(s) : 1 + i - 1 = i
    BY <2>1, LenProperties
  <2> QED
    BY <2>1, <2>2 DEF Rest
<1>8. Rest(s, 1 + Len(u), w[1]) /\ Begins(s, 1, u)
  BY <1>3, <1>5, <1>6, <1>7, RestOf
<1>9. Rest(s, 2, w[1])
  BY <1>6, <1>8
<1>10. Byte(s, 1) = Quote
  <2>1. Len(s) >= 1
    <3>1. 1 + Len(u) <= Len(s) + 1
      BY <1>3, <1>5, <1>6, <1>7, RestOf
    <3> QED
      BY <1>6, <1>7, <3>1, LenProperties
  <2>2. s[1] = Quote
    <3>1. 1 \in 1..Len(u) /\ 1 + 1 - 1 = 1
      BY <1>6
    <3> QED
      BY <1>6, <1>8, <3>1 DEF Begins
  <2> QED
    BY <2>1, <2>2 DEF Byte
<1>11. ReadString(s) = ReadFrom(s)[2]
  BY <1>10, ReadStringIs
<1>12. Fine(ReadFrom(s)[2], c[1])
  BY <1>1, <1>4, <1>9, WrittenReads
<1>13. c[1] = CodePoints(t)
  BY <1>1, CodePointsAre
<1> QED
  BY <1>2, <1>11, <1>12, <1>13

LEMMA EscapeBad ==
  ASSUME NEW s, NEW r, r = ReadFrom(s), NEW p, NEW n, UnitAt(s, p, n),
         n \notin High, n = 0 \/ n \in Low
  PROVE  ~r[p].ok
<1>1. ReadHex4(s, p + 2) = n
  BY DEF UnitAt
<1>2. n <= 0 \/ n \in Low
  OBVIOUS
<1>3. PICK d : d = DecodeUnicode(s, p + 2)
  OBVIOUS
<1>4. d = Bad
  BY <1>1, <1>2, <1>3 DEF DecodeUnicode
<1> QED
  BY <1>3, <1>4, EscapeStep

LEMMA PairStep ==
  ASSUME NEW s, NEW p, NEW n, UnitAt(s, p, n), n \in High
  PROVE  DecodeUnicode(s, p + 2) =
           IF Byte(s, p + 6) = Backslash /\ Byte(s, p + 7) = LetterU /\ ReadHex4(s, p + 8) \in Low
             THEN [cp |-> 65536 + (n - 55296) * 1024 + (ReadHex4(s, p + 8) - 56320),
                   next |-> p + 12]
             ELSE Bad
<1>1. p \in Nat /\ ReadHex4(s, p + 2) = n
  BY DEF UnitAt
<1>2. p + 2 + 4 = p + 6 /\ p + 2 + 5 = p + 7 /\ p + 2 + 6 = p + 8 /\ p + 2 + 10 = p + 12
  BY <1>1
<1> QED
  BY <1>1, <1>2 DEF DecodeUnicode

LEMMA PairRefused ==
  ASSUME NEW s, NEW p, NEW n, UnitAt(s, p, n), n \in High,
         Byte(s, p + 6) # Backslash \/ ReadHex4(s, p + 8) \notin Low
  PROVE  DecodeUnicode(s, p + 2) = Bad
<1>1. p \in Nat /\ ReadHex4(s, p + 2) = n
  BY DEF UnitAt
<1>2. p + 2 + 4 = p + 6 /\ p + 2 + 6 = p + 8
  BY <1>1
<1> QED
  BY <1>1, <1>2 DEF DecodeUnicode

LEMMA PairValue ==
  ASSUME NEW n \in Nat, NEW m \in Nat, n \in High, m \in Low
  PROVE  /\ 65536 + (n - 55296) * 1024 + (m - 56320) = OfPair(n, m)
         /\ CodePoint(OfPair(n, m))
<1>1. 55296 <= n /\ n <= 56319 /\ 56320 <= m /\ m <= 57343
  BY SurrogatesAre
<1>2. PICK a \in Nat, b \in Nat : a = n - 55296 /\ b = m - 56320
  BY <1>1
<1>3. a < 1024 /\ b < 1024 /\ n = 54 * 1024 + a /\ m = 55 * 1024 + b
  BY <1>1, <1>2
<1>4. n % 1024 = a
  BY <1>3, Quotient
<1>5. m % 1024 = b
  BY <1>3, Quotient
<1>6. OfPair(n, m) = 65536 + a * 1024 + b
  BY <1>4, <1>5 DEF OfPair
<1>7. CodePoint(65536 + a * 1024 + b)
  BY <1>3 DEF CodePoint
<1> QED
  BY <1>2, <1>6, <1>7

LEMMA PairGoes ==
  ASSUME NEW s, NEW r, r = ReadFrom(s), NEW p, NEW n \in Nat, UnitAt(s, p, n), n \in High,
         NEW m \in Nat, UnitAt(s, p + 6, m), m \in Low
  PROVE  r[p] = Then(EmitUtf8(OfPair(n, m)), r[p + 12])
<1>1. p \in Nat /\ Byte(s, p + 6) = Backslash /\ Byte(s, p + 6 + 1) = LetterU
      /\ ReadHex4(s, p + 6 + 2) = m
  BY DEF UnitAt
<1>2. p + 6 + 1 = p + 7 /\ p + 6 + 2 = p + 8
  BY <1>1
<1>3. PICK d : d = DecodeUnicode(s, p + 2)
  OBVIOUS
<1>4. d = [cp |-> OfPair(n, m), next |-> p + 12]
  BY <1>1, <1>2, <1>3, PairStep, PairValue
<1>5. d.cp = OfPair(n, m) /\ d.next = p + 12
  BY <1>4
<1>6. d # Bad
  BY <1>1, <1>5 DEF Bad
<1> QED
  BY <1>3, <1>5, <1>6, EscapeStep

LEMMA PairBad ==
  ASSUME NEW s, NEW r, r = ReadFrom(s), NEW p, NEW n, UnitAt(s, p, n), n \in High,
         NEW m, Byte(s, p + 6) = Quote \/ (UnitAt(s, p + 6, m) /\ m \notin Low)
  PROVE  ~r[p].ok
<1>1. p \in Nat
  BY DEF UnitAt
<1>2. PICK d : d = DecodeUnicode(s, p + 2)
  OBVIOUS
<1>3. CASE Byte(s, p + 6) = Quote
  <2>1. Byte(s, p + 6) # Backslash
    BY <1>3 DEF Quote, Backslash
  <2>2. d = Bad
    BY <1>2, <2>1, PairRefused
  <2> QED
    BY <1>2, <2>2, EscapeStep
<1>4. CASE UnitAt(s, p + 6, m) /\ m \notin Low
  <2>1. ReadHex4(s, p + 6 + 2) = m /\ p + 6 + 2 = p + 8
    BY <1>1, <1>4 DEF UnitAt
  <2>2. d = Bad
    BY <1>2, <1>4, <2>1, PairRefused
  <2> QED
    BY <1>2, <2>2, EscapeStep
<1> QED
  BY <1>3, <1>4

Units(u) == Len(u) \in Nat /\ u = [i \in 1..Len(u) |-> u[i]] /\ \A i \in 1..Len(u) : Unit(u[i])

------------------------------------------------------------------------------
(* A row of texts, one after another. *)
IsFlat(f, seqs) ==
  f = [i \in 1..Len(seqs) |-> IF i = 1 THEN seqs[i] ELSE f[i - 1] \o seqs[i]]

LEMMA FlatExists ==
  ASSUME NEW seqs, Len(seqs) \in Nat PROVE \E f : IsFlat(f, seqs)
<1> DEFINE Is(f, m) == f = [i \in 1..m |-> IF i = 1 THEN seqs[i] ELSE f[i - 1] \o seqs[i]]
           bad == {m \in Nat : ~\E f : Is(f, m)}
<1>1. CASE bad = {}
  <2>1. Len(seqs) \notin bad
    BY <1>1
  <2> QED
    BY <2>1 DEF IsFlat
<1>2. CASE bad # {}
  <2>1. PICK m \in bad : \A k \in bad : m <= k
    <3>1. bad \in SUBSET Nat
      OBVIOUS
    <3> HIDE DEF bad
    <3> QED
      BY <1>2, <3>1, MinimumExists
  <2>2. m \in Nat /\ ~\E f : Is(f, m)
    OBVIOUS
  <2>3. m # 0
    <3> DEFINE f == [i \in 1..0 |-> << >>]
    <3>1. f = [i \in 1..0 |-> IF i = 1 THEN seqs[i] ELSE f[i - 1] \o seqs[i]]
      OBVIOUS
    <3> QED
      BY <2>2, <3>1
  <2>4. m - 1 \in Nat /\ ~(m <= m - 1)
    BY <2>2, <2>3
  <2>5. PICK g : Is(g, m - 1)
    BY <2>1, <2>4
  <2> DEFINE f == [i \in 1..m |-> IF i = 1 THEN seqs[i]
                                  ELSE IF i = m THEN g[m - 1] \o seqs[m] ELSE g[i]]
  <2>6. ASSUME NEW i \in 1..m
        PROVE  f[i] = IF i = 1 THEN seqs[i] ELSE f[i - 1] \o seqs[i]
    <3>1. CASE i = 1
      BY <3>1
    <3>2. CASE i # 1
      <4>1. i - 1 \in 1..m - 1 /\ i - 1 \in 1..m /\ i - 1 # m
        BY <2>2, <3>2
      <4>2. f[i - 1] = g[i - 1]
        <5>1. CASE i - 1 = 1
          BY <2>5, <4>1, <5>1
        <5>2. CASE i - 1 # 1
          BY <4>1, <5>2
        <5> QED
          BY <5>1, <5>2
      <4>3. CASE i = m
        BY <3>2, <4>2, <4>3
      <4>4. CASE i # m
        <5>1. i \in 1..m - 1
          BY <2>2, <4>4
        <5>2. g[i] = g[i - 1] \o seqs[i]
          BY <2>5, <3>2, <5>1
        <5> QED
          BY <3>2, <4>2, <4>4, <5>2
      <4> QED
        BY <4>3, <4>4
    <3> QED
      BY <3>1, <3>2
  <2>7. Is(f, m)
    <3>1. f = [i \in 1..m |-> f[i]]
      OBVIOUS
    <3> HIDE DEF f
    <3> QED
      BY <2>6, <3>1
  <2> QED
    BY <2>2, <2>7
<1> QED
  BY <1>1, <1>2

(* The first i units, written. *)
Laid(f, units, i) ==
  /\ f \in Seq(Int) /\ Len(f) = 6 * i
  /\ \A j \in 1..i : \A m \in 1..6 : f[6 * (j - 1) + m] = Unicode(units[j])[m]

LEMMA LaidMore ==
  ASSUME NEW units, NEW i \in Nat, NEW f, Laid(f, units, i), Unit(units[i + 1]),
         NEW g, g = f \o Unicode(units[i + 1])
  PROVE  Laid(g, units, i + 1)
<1>1. PICK u : u = Unicode(units[i + 1])
  OBVIOUS
<1>2. u \in Seq(Int) /\ Len(u) = 6
  BY <1>1, UnicodeIs
<1>3. f \in Seq(Int) /\ Len(f) = 6 * i
  BY DEF Laid
<1>4. /\ g \in Seq(Int) /\ Len(g) = Len(f) + Len(u)
      /\ \A k \in 1..Len(f)+Len(u) : g[k] = IF k <= Len(f) THEN f[k] ELSE u[k - Len(f)]
  BY <1>1, <1>2, <1>3, ConcatProperties
<1>5. Len(g) = 6 * (i + 1)
  BY <1>2, <1>3, <1>4
<1>6. ASSUME NEW j \in 1..i+1, NEW m \in 1..6
      PROVE  g[6 * (j - 1) + m] = Unicode(units[j])[m]
  <2>1. PICK k : k = 6 * (j - 1) + m
    OBVIOUS
  <2>2. CASE j = i + 1
    <3>1. k \in 1..Len(f)+Len(u) /\ ~(k <= Len(f)) /\ k - Len(f) = m
      BY <1>2, <1>3, <2>1, <2>2
    <3> QED
      BY <1>1, <1>4, <2>1, <2>2, <3>1
  <2>3. CASE j # i + 1
    <3>1. j \in 1..i
      BY <2>3
    <3>2. k \in 1..Len(f)+Len(u) /\ k <= Len(f)
      BY <1>2, <1>3, <2>1, <3>1
    <3>3. f[6 * (j - 1) + m] = Unicode(units[j])[m]
      BY <3>1 DEF Laid
    <3> QED
      BY <1>4, <2>1, <3>2, <3>3
  <2> QED
    BY <2>2, <2>3
<1> QED
  BY <1>4, <1>5, <1>6 DEF Laid

LEMMA SameLast ==
  ASSUME NEW a \in Nat, NEW b \in Nat, 1..a = 1..b
  PROVE  a = b
<1>1. CASE a < b
  BY <1>1
<1>2. CASE b < a
  BY <1>2
<1> QED
  BY <1>1, <1>2

LEMMA AllLaid ==
  ASSUME NEW units, Units(units), NEW e, e = [k \in DOMAIN units |-> Unicode(units[k])]
  PROVE  Laid(FlattenSeq(e), units, Len(units))
<1> DEFINE n == Len(units)
           flat == CHOOSE f : f = [i \in 1..Len(e) |->
                                     IF i = 1 THEN e[i] ELSE f[i - 1] \o e[i]]
           bad == {i \in 1..n : ~Laid(flat[i], units, i)}
<1> HIDE DEF flat, bad
<1>1. n \in Nat /\ DOMAIN units = 1..n
  BY DEF Units
<1>2. Len(e) = n /\ \A i \in 1..n : e[i] = Unicode(units[i])
  <2>1. e = [k \in 1..n |-> Unicode(units[k])]
    BY <1>1
  <2>2. \A i \in 1..n : e[i] = Unicode(units[i])
    BY <2>1
  <2>3. e \in Seq(Seq(Int))
    <3>1. \A i \in 1..n : Unicode(units[i]) \in Seq(Int)
      BY UnicodeIs DEF Units
    <3> QED
      BY <1>1, <2>1, <3>1, IsASeq
  <2>4. Len(e) \in Nat /\ DOMAIN e = 1..Len(e)
    BY <2>3, LenProperties
  <2>5. DOMAIN e = 1..n
    BY <2>1
  <2>6. Len(e) = n
    BY <1>1, <2>4, <2>5, SameLast, Zenon
  <2> QED
    BY <2>2, <2>6
<1>3. flat = [i \in 1..n |-> IF i = 1 THEN e[i] ELSE flat[i - 1] \o e[i]]
  <2>1. flat = CHOOSE f : IsFlat(f, e)
    BY DEF IsFlat, flat
  <2>2. \E f : IsFlat(f, e)
    <3>1. Len(e) \in Nat
      BY <1>1, <1>2
    <3> QED
      BY <3>1, FlatExists, Zenon
  <2>3. IsFlat(flat, e)
    BY <2>1, <2>2, Zenon
  <2>4. flat = [i \in 1..Len(e) |-> IF i = 1 THEN e[i] ELSE flat[i - 1] \o e[i]]
    BY <2>3, Zenon DEF IsFlat
  <2>5. Len(e) = n
    BY <1>2
  <2> QED
    BY <2>4, <2>5, Zenon
<1>4. FlattenSeq(e) = IF Len(e) = 0 THEN e ELSE flat[Len(e)]
  BY Zenon DEF FlattenSeq, flat
<1>5. Laid(<< >>, units, 0)
  BY DEF Laid
<1>6. CASE n = 0
  <2>1. e = << >>
    BY <1>1, <1>6
  <2> QED
    BY <1>2, <1>4, <1>5, <1>6, <2>1
<1>7. CASE n # 0
  <2>1. bad = {}
    <3>1. SUFFICES ASSUME bad # {} PROVE FALSE
      BY <3>1
    <3>2. PICK m \in bad : \A k \in bad : m <= k
      <4>1. bad \in SUBSET Nat
        BY DEF bad
      <4> QED
        BY <3>1, <4>1, MinimumExists
    <3>3. m \in 1..n /\ ~Laid(flat[m], units, m)
      BY DEF bad
    <3>4. Unit(units[m]) /\ e[m] = Unicode(units[m])
      BY <1>2, <3>3 DEF Units
    <3>5. CASE m = 1
      <4>1. flat[m] = Unicode(units[0 + 1])
        BY <1>3, <3>3, <3>4, <3>5
      <4>2. Unicode(units[0 + 1]) \in Seq(Int) /\ Unit(units[0 + 1])
        BY <3>4, <3>5, UnicodeIs
      <4>3. flat[m] = << >> \o Unicode(units[0 + 1])
        BY <4>1, <4>2, ConcatEmptySeq
      <4>4. Laid(flat[m], units, 0 + 1)
        BY <1>5, <4>2, <4>3, LaidMore
      <4> QED
        BY <3>3, <3>5, <4>4
    <3>6. CASE m # 1
      <4>1. PICK i : i = m - 1
        OBVIOUS
      <4>2. i \in Nat /\ i \in 1..n /\ ~(m <= i) /\ i + 1 = m
        BY <3>3, <3>6, <4>1
      <4>3. Laid(flat[i], units, i)
        BY <3>2, <4>2 DEF bad
      <4>4. flat[m] = flat[i] \o Unicode(units[i + 1])
        <5>1. flat[m] = flat[m - 1] \o e[m]
          BY <1>3, <3>3, <3>6
        <5>2. e[m] = Unicode(units[i + 1])
          BY <3>4, <4>2
        <5> QED
          BY <4>1, <5>1, <5>2, Zenon
      <4>5. Laid(flat[m], units, i + 1)
        BY <3>4, <4>2, <4>3, <4>4, LaidMore
      <4> QED
        BY <3>3, <4>2, <4>5
    <3> QED
      BY <3>5, <3>6
  <2>2. n \in 1..n
    BY <1>1, <1>7
  <2>3. Laid(flat[n], units, n)
    BY <2>1, <2>2 DEF bad
  <2> QED
    BY <1>2, <1>4, <1>7, <2>3
<1> QED
  BY <1>6, <1>7

(* The string of units, as its reader sees it. *)
LEMMA EscapedIs ==
  ASSUME NEW units, Units(units), NEW s, s = Escaped(units)
  PROVE  /\ s \in Seq(Int) /\ Byte(s, 1) = Quote
         /\ \A j \in 1..Len(units) : UnitAt(s, 6 * j - 4, units[j])
         /\ Byte(s, 6 * Len(units) + 2) = Quote
         /\ Len(s) = 6 * Len(units) + 2
<1>1. PICK f : f = FlattenSeq([k \in DOMAIN units |-> Unicode(units[k])])
  OBVIOUS
<1>2. Laid(f, units, Len(units))
  BY <1>1, AllLaid
<1>3. PICK n : n = Len(units)
  OBVIOUS
<1>4. n \in Nat /\ f \in Seq(Int) /\ Len(f) = 6 * n
      /\ \A j \in 1..n : \A m \in 1..6 : f[6 * (j - 1) + m] = Unicode(units[j])[m]
  BY <1>2, <1>3 DEF Laid, Units
<1>5. PICK q \in Seq(Int) : q = <<Quote>> /\ Len(q) = 1 /\ q[1] = Quote
  BY OneQuote
<1>6. PICK w : w = q \o f
  OBVIOUS
<1>7. /\ w \in Seq(Int) /\ Len(w) = 1 + Len(f)
      /\ \A k \in 1..1+Len(f) : w[k] = IF k <= 1 THEN q[k] ELSE f[k - 1]
  BY <1>4, <1>5, <1>6, ConcatProperties
<1>8. s = w \o q
  BY <1>1, <1>5, <1>6 DEF Escaped
<1>9. /\ s \in Seq(Int) /\ Len(s) = 6 * n + 2
      /\ \A k \in 1..6*n+2 : s[k] = IF k <= 6 * n + 1 THEN w[k] ELSE q[k - (6 * n + 1)]
  <2>1. /\ s \in Seq(Int) /\ Len(s) = Len(w) + Len(q)
        /\ \A k \in 1..Len(w)+Len(q) : s[k] = IF k <= Len(w) THEN w[k] ELSE q[k - Len(w)]
    BY <1>5, <1>7, <1>8, ConcatProperties
  <2>2. Len(w) = 6 * n + 1 /\ Len(w) + Len(q) = 6 * n + 2
    BY <1>4, <1>5, <1>7
  <2> QED
    BY <2>1, <2>2
<1>10. s[1] = Quote
  <2>1. 1 \in 1..6*n+2 /\ 1 <= 6 * n + 1 /\ 1 \in 1..1+Len(f) /\ 1 <= 1
    BY <1>4
  <2> QED
    BY <1>5, <1>7, <1>9, <2>1
<1>11. s[6 * n + 2] = Quote
  <2>1. PICK k : k = 6 * n + 2
    OBVIOUS
  <2>2. k \in 1..6*n+2 /\ ~(k <= 6 * n + 1) /\ k - (6 * n + 1) = 1
    BY <1>4, <2>1
  <2> QED
    BY <1>5, <1>9, <2>1, <2>2
<1>12. ASSUME NEW j \in 1..n PROVE UnitAt(s, 6 * j - 4, units[j])
  <2>1. PICK p : p = 6 * j - 4
    OBVIOUS
  <2>2. p \in Nat /\ p >= 1 /\ p + 6 <= Len(s) + 1
    BY <1>4, <1>9, <2>1
  <2>3. PICK u : u = Unicode(units[j])
    OBVIOUS
  <2>4. Unit(units[j])
    BY <1>3 DEF Units
  <2>5. Len(u) = 6
    BY <2>3, <2>4, UnicodeIs
  <2>6. ASSUME NEW i \in 1..Len(u) PROVE s[p + i - 1] = u[i]
    <3>1. i \in 1..6
      BY <2>5
    <3>2. PICK k : k = p + i - 1
      OBVIOUS
    <3>3. /\ k \in 1..6*n+2 /\ k <= 6 * n + 1 /\ k \in 1..1+Len(f) /\ ~(k <= 1)
          /\ k - 1 = 6 * (j - 1) + i
      BY <1>4, <2>1, <3>1, <3>2
    <3>4. s[k] = w[k]
      BY <1>9, <3>3
    <3>5. w[k] = f[k - 1]
      BY <1>7, <3>3
    <3>6. f[k - 1] = u[i]
      BY <1>4, <2>3, <3>1, <3>3
    <3> QED
      BY <3>2, <3>4, <3>5, <3>6
  <2>7. Begins(s, p, u)
    BY <2>6 DEF Begins
  <2>8. UnitAt(s, p, units[j])
    BY <1>9, <2>2, <2>3, <2>4, <2>7, UnitIsAt
  <2> QED
    BY <2>1, <2>8
<1>13. Byte(s, 1) = Quote /\ Byte(s, 6 * n + 2) = Quote
  <2>1. 1 <= Len(s) /\ 6 * n + 2 <= Len(s)
    BY <1>4, <1>9
  <2> QED
    BY <1>10, <1>11, <2>1 DEF Byte
<1> QED
  BY <1>3, <1>9, <1>12, <1>13

------------------------------------------------------------------------------
(* What UTF-16 means. *)
IsHigh(units, k) == k \in DOMAIN units /\ units[k] \in High
IsLow(units, k)  == k \in DOMAIN units /\ units[k] \in Low

Utf16Body(units, f, k) ==
  IF k > Len(units) THEN << >>
  ELSE IF IsHigh(units, k) THEN <<OfPair(units[k], units[k + 1])>> \o f[k + 2]
  ELSE <<units[k]>> \o f[k + 1]

IsUtf16(units, f) == f = [k \in 1..Len(units)+2 |-> Utf16Body(units, f, k)]

Utf16From(units) == CHOOSE f : IsUtf16(units, f)

Paired(units) ==
  \A k \in DOMAIN units :
    /\ units[k] # 0
    /\ IsHigh(units, k) => IsLow(units, k + 1)
    /\ IsLow(units, k) => IsHigh(units, k - 1)

LEMMA Utf16Is ==
  ASSUME NEW units
  PROVE  Utf16(units) = IF Paired(units) THEN Shown(Utf16From(units)[1]) ELSE Undrawn
BY Zenon DEF Utf16, Paired, IsHigh, IsLow, Utf16From, IsUtf16, Utf16Body

HeadOf(units, k) ==
  IF IsHigh(units, k) THEN OfPair(units[k], units[k + 1]) ELSE units[k]
Behind(units, k) == IF IsHigh(units, k) THEN k + 2 ELSE k + 1

LEMMA Utf16Exists ==
  ASSUME NEW units, Units(units)
  PROVE  \E f : IsUtf16(units, f)
<1> DEFINE n == Len(units) + 2
           H == {HeadOf(units, k) : k \in 1..n}
           V == Seq(H)
           stops == {k \in 1..n : k > Len(units)}
           base == [k \in 1..n |-> << >>]
           made == [k \in 1..n |-> [v \in V |-> <<HeadOf(units, k)>> \o v]]
           next == [k \in 1..n |-> Behind(units, k)]
<1>1. Len(units) \in Nat /\ n \in Nat
  BY DEF Units
<1>2. base \in [1..n -> V]
  OBVIOUS
<1>3. made \in [1..n -> [V -> V]]
  <2>1. ASSUME NEW k \in 1..n, NEW v \in V
        PROVE  <<HeadOf(units, k)>> \o v \in V
    <3>1. HeadOf(units, k) \in H
      OBVIOUS
    <3> HIDE DEF H
    <3>2. <<HeadOf(units, k)>> \in Seq(H)
      BY <3>1
    <3> QED
      BY <3>2, ConcatProperties
  <2> HIDE DEF V
  <2> QED
    BY <2>1
<1>4. \A k \in 1..n : k \in stops \/ next[k] \in k+1..n
  BY <1>1 DEF Behind
<1>5. Descent(V, n, stops, base, made, next)
  <2> HIDE DEF V, stops, base, made, next, n
  <2> QED
    BY <1>1, <1>2, <1>3, <1>4 DEF Descent
<1>6. PICK f \in [1..n -> V] : Descends(f, n, stops, base, made, next)
  <2> HIDE DEF V, stops, base, made, next, n
  <2> QED
    BY <1>5, DescentExists
<1>7. ASSUME NEW k \in 1..n PROVE f[k] = Utf16Body(units, f, k)
  <2>0. f[k] = IF k \in stops THEN base[k] ELSE made[k][f[next[k]]]
    BY <1>6 DEF Descends
  <2>1. CASE k > Len(units)
    BY <2>0, <2>1 DEF Utf16Body
  <2>2. CASE ~(k > Len(units))
    <3>1. k \notin stops
      BY <2>2
    <3>2. next[k] \in k+1..n
      BY <1>4, <3>1
    <3>3. f[next[k]] \in V
      BY <1>1, <1>6, <3>2
    <3>4. f[k] = made[k][f[next[k]]]
      BY <2>0, <3>1
    <3>5. made[k][f[next[k]]] = <<HeadOf(units, k)>> \o f[next[k]]
      <4> HIDE DEF V
      <4> QED
        BY <3>3
    <3>6. next[k] = Behind(units, k)
      OBVIOUS
    <3> HIDE DEF made, next, V, stops, base
    <3>7. f[k] = <<HeadOf(units, k)>> \o f[Behind(units, k)]
      BY <3>4, <3>5, <3>6
    <3> QED
      BY <2>2, <3>7 DEF Utf16Body, HeadOf, Behind
  <2> QED
    BY <2>1, <2>2
<1>8. IsUtf16(units, f)
  <2>1. f = [k \in 1..n |-> f[k]]
    BY <1>6
  <2> QED
    BY <1>7, <2>1 DEF IsUtf16
<1> QED
  BY <1>8

LEMMA Utf16Unfold ==
  ASSUME NEW units, Units(units), NEW c, c = Utf16From(units)
  PROVE  /\ \A k \in 1..Len(units) : c[k] = <<HeadOf(units, k)>> \o c[Behind(units, k)]
         /\ c[Len(units) + 1] = << >>
<1>1. Len(units) \in Nat
  BY DEF Units
<1>2. IsUtf16(units, c)
  BY Utf16Exists, Zenon DEF Utf16From
<1>3. c = [k \in 1..Len(units)+2 |-> Utf16Body(units, c, k)]
  BY <1>2 DEF IsUtf16
<1>4. \A k \in 1..Len(units)+2 : c[k] = Utf16Body(units, c, k)
  <2> DEFINE g(k) == Utf16Body(units, c, k)
  <2> HIDE DEF g
  <2>1. c = [k \in 1..Len(units)+2 |-> g(k)]
    BY <1>3 DEF g
  <2>2. \A k \in 1..Len(units)+2 : c[k] = g(k)
    BY <2>1
  <2> QED
    BY <2>2 DEF g
<1>5. ASSUME NEW k \in 1..Len(units)
      PROVE  c[k] = <<HeadOf(units, k)>> \o c[Behind(units, k)]
  <2>1. k \in 1..Len(units)+2 /\ ~(k > Len(units))
    BY <1>1
  <2>2. c[k] = Utf16Body(units, c, k)
    BY <1>4, <2>1
  <2> QED
    BY <2>1, <2>2 DEF Utf16Body, HeadOf, Behind
<1>6. c[Len(units) + 1] = << >>
  <2>1. Len(units) + 1 \in 1..Len(units)+2 /\ Len(units) + 1 > Len(units)
    BY <1>1
  <2>2. c[Len(units) + 1] = Utf16Body(units, c, Len(units) + 1)
    BY <1>4, <2>1
  <2> QED
    BY <2>1, <2>2 DEF Utf16Body
<1> QED
  BY <1>5, <1>6

(* From unit j on, each has its other half. *)
PairedFrom(units, j) ==
  \A k \in j..Len(units) :
    /\ units[k] # 0
    /\ IsHigh(units, k) => IsLow(units, k + 1)
    /\ IsLow(units, k) => k > j /\ IsHigh(units, k - 1)

LEMMA PairedIs ==
  ASSUME NEW units, Units(units) PROVE Paired(units) <=> PairedFrom(units, 1)
<1>1. Len(units) \in Nat /\ DOMAIN units = 1..Len(units)
  BY DEF Units
<1>2. ASSUME NEW k \in 1..Len(units), IsHigh(units, k - 1) PROVE k > 1
  <2>1. k - 1 \in 1..Len(units)
    BY <1>1, <1>2 DEF IsHigh
  <2> QED
    BY <1>1, <2>1
<1> QED
  BY <1>1, <1>2 DEF Paired, PairedFrom

LEMMA UnitsApart ==
  ASSUME NEW n, Unit(n)
  PROVE  /\ ~(n \in High /\ n \in Low)
         /\ n \in High \/ n \in Low => n # 0
         /\ n \notin High /\ n \notin Low /\ n # 0 => CodePoint(n)
<1>1. n \in Nat /\ n <= 65535
  BY DEF Unit
<1>2. /\ n \in High <=> 55296 <= n /\ n <= 56319
      /\ n \in Low <=> 56320 <= n /\ n <= 57343
  BY <1>1, SurrogatesAre
<1>3. ~(n \in High /\ n \in Low) /\ (n \in High \/ n \in Low => n # 0)
  BY <1>1, <1>2, SMT
<1>4. n \notin High /\ n \notin Low /\ n # 0 => CodePoint(n)
  BY <1>1, <1>2, SMT DEF CodePoint
<1> QED
  BY <1>3, <1>4

LEMMA KindsApart ==
  ASSUME NEW units, Units(units)
  PROVE  /\ DOMAIN units = 1..Len(units)
         /\ \A k : ~(IsHigh(units, k) /\ IsLow(units, k))
         /\ \A k : IsHigh(units, k) \/ IsLow(units, k) => units[k] # 0
<1>1. DOMAIN units = 1..Len(units) /\ \A i \in 1..Len(units) : Unit(units[i])
  BY DEF Units
<1> QED
  BY <1>1, UnitsApart DEF IsHigh, IsLow

LEMMA PairedBehindOne ==
  ASSUME NEW units, Units(units), NEW j \in 1..Len(units),
         ~IsHigh(units, j), ~IsLow(units, j), units[j] # 0
  PROVE  PairedFrom(units, j) <=> PairedFrom(units, j + 1)
<1>1. Len(units) \in Nat
  BY DEF Units
<1>2. ASSUME PairedFrom(units, j), NEW k \in j+1..Len(units)
      PROVE  /\ units[k] # 0
             /\ IsHigh(units, k) => IsLow(units, k + 1)
             /\ IsLow(units, k) => k > j + 1 /\ IsHigh(units, k - 1)
  <2>1. k \in j..Len(units)
    BY <1>1
  <2>2. k = j + 1 => k - 1 = j
    OBVIOUS
  <2>3. k # j + 1 => k > j + 1
    BY <1>1
  <2> QED
    BY <1>2, <2>1, <2>2, <2>3 DEF PairedFrom
<1>3. ASSUME PairedFrom(units, j + 1), NEW k \in j..Len(units)
      PROVE  /\ units[k] # 0
             /\ IsHigh(units, k) => IsLow(units, k + 1)
             /\ IsLow(units, k) => k > j /\ IsHigh(units, k - 1)
  <2>1. k = j \/ (k \in j+1..Len(units) /\ k > j)
    BY <1>1
  <2> QED
    BY <1>3, <2>1 DEF PairedFrom
<1> QED
  BY <1>2, <1>3 DEF PairedFrom

LEMMA PairedBehindTwo ==
  ASSUME NEW units, Units(units), NEW j \in 1..Len(units),
         IsHigh(units, j), IsLow(units, j + 1)
  PROVE  /\ PairedFrom(units, j) <=> PairedFrom(units, j + 2)
         /\ j + 1 \in 1..Len(units)
<1>1. Len(units) \in Nat
  BY DEF Units
<1>2. j + 1 \in 1..Len(units)
  BY KindsApart DEF IsLow
<1>3. ~IsLow(units, j) /\ ~IsHigh(units, j + 1) /\ units[j] # 0 /\ units[j + 1] # 0
  BY KindsApart
<1>4. ASSUME PairedFrom(units, j), NEW k \in j+2..Len(units)
      PROVE  /\ units[k] # 0
             /\ IsHigh(units, k) => IsLow(units, k + 1)
             /\ IsLow(units, k) => k > j + 2 /\ IsHigh(units, k - 1)
  <2>1. k \in j..Len(units)
    BY <1>1
  <2>2. k = j + 2 => k - 1 = j + 1
    OBVIOUS
  <2>3. k # j + 2 => k > j + 2
    BY <1>1
  <2> QED
    BY <1>3, <1>4, <2>1, <2>2, <2>3 DEF PairedFrom
<1>5. ASSUME PairedFrom(units, j + 2), NEW k \in j..Len(units)
      PROVE  /\ units[k] # 0
             /\ IsHigh(units, k) => IsLow(units, k + 1)
             /\ IsLow(units, k) => k > j /\ IsHigh(units, k - 1)
  <2>1. k = j \/ k = j + 1 \/ (k \in j+2..Len(units) /\ k > j)
    BY <1>1
  <2>2. j + 1 > j /\ j + 1 - 1 = j
    OBVIOUS
  <2> QED
    BY <1>3, <1>5, <2>1, <2>2 DEF PairedFrom
<1> QED
  BY <1>2, <1>4, <1>5 DEF PairedFrom

LEMMA QuoteGoes ==
  ASSUME NEW s \in Seq(Int), NEW r, r = ReadFrom(s), NEW p \in 1..Len(s)+1, Byte(s, p) = Quote
  PROVE  Fine(r[p], << >>)
<1>1. Ends(s, p) /\ EndedBy(s, p) = [ok |-> TRUE, text |-> << >>]
  BY DEF Ends, EndedBy
<1>2. r[p] = [ok |-> TRUE, text |-> << >>]
  BY <1>1, ReadUnfold
<1> QED
  BY <1>2, EmptyText DEF Fine

(* What is read from unit j on. *)
ReadsFrom(units, r, c, j) ==
  /\ PairedFrom(units, j) => Fine(r[6 * j - 4], c[j])
  /\ ~PairedFrom(units, j) => ~r[6 * j - 4].ok

(* The string of units, and what is read of it. *)
Reading(units, s, r, c) ==
  /\ Units(units) /\ s = Escaped(units) /\ r = ReadFrom(s) /\ c = Utf16From(units)

LEMMA LastReads ==
  ASSUME NEW units, NEW s, NEW r, NEW c, Reading(units, s, r, c)
  PROVE  ReadsFrom(units, r, c, Len(units) + 1)
<1>1. Units(units) /\ s = Escaped(units) /\ r = ReadFrom(s) /\ c = Utf16From(units)
  BY DEF Reading
<1>2. Len(units) \in Nat
  BY <1>1 DEF Units
<1>3. /\ s \in Seq(Int) /\ Byte(s, 6 * Len(units) + 2) = Quote
      /\ Len(s) = 6 * Len(units) + 2
  BY <1>1, EscapedIs
<1>4. PICK p : p = 6 * Len(units) + 2
  OBVIOUS
<1>5. p \in 1..Len(s)+1 /\ p = 6 * (Len(units) + 1) - 4
  BY <1>2, <1>3, <1>4
<1>6. Fine(r[p], << >>)
  BY <1>1, <1>3, <1>4, <1>5, QuoteGoes
<1>7. c[Len(units) + 1] = << >>
  BY <1>1, Utf16Unfold
<1>8. PairedFrom(units, Len(units) + 1)
  <2>1. \A k \in Len(units)+1..Len(units) : FALSE
    BY <1>2
  <2> QED
    BY <2>1 DEF PairedFrom
<1> QED
  BY <1>5, <1>6, <1>7, <1>8 DEF ReadsFrom

LEMMA OneUnitReads ==
  ASSUME NEW units, NEW s, NEW r, NEW c, Reading(units, s, r, c),
         NEW j \in 1..Len(units), ~IsHigh(units, j), ReadsFrom(units, r, c, j + 1)
  PROVE  ReadsFrom(units, r, c, j)
<1>1. Units(units) /\ s = Escaped(units) /\ r = ReadFrom(s) /\ c = Utf16From(units)
  BY DEF Reading
<1>2. PICK n : n = units[j]
  OBVIOUS
<1>3. Unit(n) /\ n \notin High /\ (IsLow(units, j) <=> n \in Low)
  BY <1>1, <1>2 DEF Units, IsHigh, IsLow
<1>4. PICK p : p = 6 * j - 4
  OBVIOUS
<1>5. UnitAt(s, p, n)
  BY <1>1, <1>2, <1>4, EscapedIs
<1>6. p + 6 = 6 * (j + 1) - 4
  BY <1>4
<1>7. CASE n = 0 \/ n \in Low
  <2>1. ~r[p].ok
    BY <1>1, <1>3, <1>5, <1>7, EscapeBad
  <2>2. j \in j..Len(units)
    BY <1>1 DEF Units
  <2>3. ~(j > j)
    OBVIOUS
  <2>4. ~PairedFrom(units, j)
    BY <1>2, <1>3, <1>7, <2>2, <2>3, Zenon DEF PairedFrom
  <2> QED
    BY <1>4, <2>1, <2>4 DEF ReadsFrom
<1>8. CASE ~(n = 0 \/ n \in Low)
  <2>1. CodePoint(n)
    BY <1>3, <1>8, UnitsApart
  <2>2. r[p] = Then(EmitUtf8(n), r[p + 6])
    BY <1>1, <1>5, <2>1, EscapeGoes
  <2>3. PICK o, d : o = r[p + 6] /\ d = c[j + 1]
    OBVIOUS
  <2>4. PICK q : q = r[p]
    OBVIOUS
  <2>5. /\ Fine(o, d) => Fine(q, <<n>> \o d)
        /\ ~o.ok => ~q.ok
    BY <2>1, <2>2, <2>3, <2>4, EmitStep
  <2>6. PairedFrom(units, j) <=> PairedFrom(units, j + 1)
    BY <1>1, <1>2, <1>3, <1>8, PairedBehindOne
  <2>7. c[j] = <<n>> \o d
    <3>1. c[j] = <<HeadOf(units, j)>> \o c[Behind(units, j)]
      BY <1>1, Utf16Unfold
    <3> QED
      BY <1>2, <2>3, <3>1 DEF HeadOf, Behind
  <2>8. /\ PairedFrom(units, j + 1) => Fine(o, d)
        /\ ~PairedFrom(units, j + 1) => ~o.ok
    BY <1>6, <2>3 DEF ReadsFrom
  <2> QED
    BY <1>4, <2>4, <2>5, <2>6, <2>7, <2>8 DEF ReadsFrom
<1> QED
  BY <1>7, <1>8

LEMMA PairReads ==
  ASSUME NEW units, NEW s, NEW r, NEW c, Reading(units, s, r, c),
         NEW j \in 1..Len(units), IsHigh(units, j), IsLow(units, j + 1),
         ReadsFrom(units, r, c, j + 2)
  PROVE  ReadsFrom(units, r, c, j)
<1>1. Units(units) /\ s = Escaped(units) /\ r = ReadFrom(s) /\ c = Utf16From(units)
  BY DEF Reading
<1>2. j + 1 \in 1..Len(units) /\ (PairedFrom(units, j) <=> PairedFrom(units, j + 2))
  BY <1>1, PairedBehindTwo
<1>3. PICK n, m : n = units[j] /\ m = units[j + 1]
  OBVIOUS
<1>4. Unit(n) /\ n \in High /\ Unit(m) /\ m \in Low
  BY <1>1, <1>2, <1>3 DEF Units, IsHigh, IsLow
<1>5. n \in Nat /\ m \in Nat
  BY <1>4 DEF Unit
<1>6. PICK p : p = 6 * j - 4
  OBVIOUS
<1>7. UnitAt(s, p, n) /\ UnitAt(s, p + 6, m)
  <2>1. p + 6 = 6 * (j + 1) - 4
    BY <1>6
  <2> QED
    BY <1>1, <1>2, <1>3, <1>6, <2>1, EscapedIs
<1>8. p + 12 = 6 * (j + 2) - 4
  BY <1>6
<1>9. PICK v : v = OfPair(n, m)
  OBVIOUS
<1>10. r[p] = Then(EmitUtf8(v), r[p + 12])
  BY <1>1, <1>4, <1>5, <1>7, <1>9, PairGoes
<1>11. CodePoint(v)
  BY <1>4, <1>5, <1>9, PairValue
<1>12. PICK o, d : o = r[p + 12] /\ d = c[j + 2]
  OBVIOUS
<1>13. PICK q : q = r[p]
  OBVIOUS
<1>14. /\ Fine(o, d) => Fine(q, <<v>> \o d)
       /\ ~o.ok => ~q.ok
  BY <1>10, <1>11, <1>12, <1>13, EmitStep
<1>15. c[j] = <<v>> \o d
  <2>1. c[j] = <<HeadOf(units, j)>> \o c[Behind(units, j)]
    BY <1>1, Utf16Unfold
  <2> QED
    BY <1>3, <1>9, <1>12, <2>1 DEF HeadOf, Behind
<1>16. /\ PairedFrom(units, j + 2) => Fine(o, d)
       /\ ~PairedFrom(units, j + 2) => ~o.ok
  BY <1>8, <1>12 DEF ReadsFrom
<1> QED
  BY <1>2, <1>6, <1>13, <1>14, <1>15, <1>16 DEF ReadsFrom

LEMMA LoneHighReads ==
  ASSUME NEW units, NEW s, NEW r, NEW c, Reading(units, s, r, c),
         NEW j \in 1..Len(units), IsHigh(units, j), ~IsLow(units, j + 1)
  PROVE  ReadsFrom(units, r, c, j)
<1>1. Units(units) /\ s = Escaped(units) /\ r = ReadFrom(s)
  BY DEF Reading
<1>2. Len(units) \in Nat /\ DOMAIN units = 1..Len(units)
  BY <1>1, KindsApart DEF Units
<1>3. ~PairedFrom(units, j)
  <2>1. j \in j..Len(units)
    BY <1>2
  <2> QED
    BY <2>1 DEF PairedFrom
<1>4. PICK n, m : n = units[j] /\ m = units[j + 1]
  OBVIOUS
<1>5. PICK p : p = 6 * j - 4
  OBVIOUS
<1>6. n \in High /\ UnitAt(s, p, n)
  BY <1>1, <1>4, <1>5, EscapedIs DEF IsHigh
<1>7. Byte(s, p + 6) = Quote \/ (UnitAt(s, p + 6, m) /\ m \notin Low)
  <2>1. p + 6 = 6 * (j + 1) - 4
    BY <1>5
  <2>2. CASE j = Len(units)
    <3>1. p + 6 = 6 * Len(units) + 2
      BY <1>2, <1>5, <2>2
    <3> QED
      BY <1>1, <3>1, EscapedIs
  <2>3. CASE j # Len(units)
    <3>1. j + 1 \in 1..Len(units)
      <4>1. PICK n0 \in Nat : n0 = Len(units)
        BY <1>2
      <4>2. j \in 1..n0 /\ j # n0
        BY <2>3, <4>1
      <4>3. j + 1 \in 1..n0
        BY <4>2, SMT
      <4> QED
        BY <4>1, <4>3, Zenon
    <3>2. m \notin Low
      BY <1>2, <1>4, <3>1 DEF IsLow
    <3>3. UnitAt(s, p + 6, m)
      BY <1>1, <1>4, <2>1, <3>1, EscapedIs
    <3> QED
      BY <3>2, <3>3
  <2> QED
    BY <2>2, <2>3
<1>8. ~r[p].ok
  BY <1>1, <1>6, <1>7, PairBad
<1> QED
  BY <1>3, <1>5, <1>8 DEF ReadsFrom

LEMMA UnitsRead ==
  ASSUME NEW units, NEW s, NEW r, NEW c, Reading(units, s, r, c)
  PROVE  ReadsFrom(units, r, c, 1)
<1> DEFINE n == Len(units) + 1
           S == {j \in 1..n : ReadsFrom(units, r, c, j)}
<1>1. Len(units) \in Nat /\ Units(units)
  BY DEF Reading, Units
<1>2. ASSUME NEW j \in 1..n, \A k \in j+1..n : k \in S PROVE j \in S
  <2>1. CASE j = n
    BY <2>1, LastReads
  <2>2. CASE j # n
    <3>1. j \in 1..Len(units) /\ j + 1 \in j+1..n
      BY <1>1, <2>2
    <3>2. CASE ~IsHigh(units, j)
      <4>1. ReadsFrom(units, r, c, j + 1)
        BY <1>2, <3>1
      <4> QED
        BY <3>1, <3>2, <4>1, OneUnitReads
    <3>3. CASE IsHigh(units, j) /\ IsLow(units, j + 1)
      <4>1. j + 1 \in 1..Len(units)
        BY <1>1, <3>1, <3>3, PairedBehindTwo
      <4>2. j + 2 \in j+1..n
        BY <1>1, <4>1
      <4>3. ReadsFrom(units, r, c, j + 2)
        BY <1>2, <4>2
      <4> QED
        BY <3>1, <3>3, <4>3, PairReads
    <3>4. CASE IsHigh(units, j) /\ ~IsLow(units, j + 1)
      BY <3>1, <3>4, LoneHighReads
    <3> QED
      BY <3>2, <3>3, <3>4
  <2> QED
    BY <2>1, <2>2
<1>3. S = 1..n
  <2>1. S \in SUBSET (1..n) /\ n \in Nat
    BY <1>1
  <2> HIDE DEF S, n
  <2> QED
    BY <1>2, <2>1, Downwards
<1>4. 1 \in 1..n
  BY <1>1
<1> QED
  BY <1>3, <1>4

(* Escapes are read as the UTF-16 they are, and refused when they are none. *)
LEMMA EscapedReadsBack ==
  ASSUME NEW units, Units(units)
  PROVE  IF Paired(units) THEN Fine(ReadString(Escaped(units)), Utf16From(units)[1])
         ELSE ~ReadString(Escaped(units)).ok
<1>1. PICK s : s = Escaped(units)
  OBVIOUS
<1>2. PICK r, c : r = ReadFrom(s) /\ c = Utf16From(units)
  OBVIOUS
<1>3. Reading(units, s, r, c)
  BY <1>1, <1>2 DEF Reading
<1>4. ReadsFrom(units, r, c, 1)
  BY <1>3, UnitsRead
<1>5. 6 * 1 - 4 = 2
  OBVIOUS
<1>6. /\ PairedFrom(units, 1) => Fine(r[2], c[1])
      /\ ~PairedFrom(units, 1) => ~r[2].ok
  BY <1>4, <1>5 DEF ReadsFrom
<1>7. Byte(s, 1) = Quote
  BY <1>1, EscapedIs
<1>8. ReadString(s) = r[2]
  BY <1>2, <1>7, ReadStringIs
<1> QED
  BY <1>1, <1>2, <1>6, <1>8, PairedIs

LEMMA UnitsAre ==
  ASSUME NEW units \in Seq({n \in Nat : n <= 65535}) PROVE Units(units)
<1> DEFINE U == {n \in Nat : n <= 65535}
<1>1. Len(units) \in Nat /\ units = [i \in 1..Len(units) |-> units[i]]
  BY LenProperties
<1>2. ASSUME NEW i \in 1..Len(units) PROVE Unit(units[i])
  <2>1. units[i] \in U
    <3> HIDE DEF U
    <3>1. units \in Seq(U)
      BY DEF U
    <3> QED
      BY <3>1, ElementOfSeq
  <2> QED
    BY <2>1 DEF Unit
<1> QED
  BY <1>1, <1>2 DEF Units

LEMMA GivenIs ==
  ASSUME SubjectsAreStrings, NEW s \in Subjects
  PROVE  /\ s.kind = "string" => s.text \in Texts
         /\ s.kind = "units" => Units(s.units)
<1>1. /\ s.kind = "string" => s.text \in Seq(1..255)
      /\ s.kind = "units" => s.units \in Seq({n \in Nat : n <= 65535})
  BY SMT DEF SubjectsAreStrings
<1>2. s.kind = "string" => s.text \in Texts
  BY <1>1 DEF Texts
<1>3. s.kind = "units" => Units(s.units)
  BY <1>1, UnitsAre
<1> QED
  BY <1>2, <1>3

(* What is drawn is the subject, drawn. *)
DrawnInv ==
  \/ subject = NoSubject /\ drawn = Undrawn
  \/ subject \in Subjects /\ drawn = Rendered(subject)

LEMMA StringIsDrawn ==
  ASSUME NEW s, s.kind = "string"
  PROVE  Rendered(s) = Shown(WriteString(s.text))
BY Zenon DEF Rendered

LEMMA UnitsAreDrawn ==
  ASSUME NEW s, s.kind = "units"
  PROVE  Rendered(s) = Done(ReadString(Escaped(s.units)))
BY Zenon DEF Rendered

LEMMA ShownIs ==
  ASSUME NEW t
  PROVE Shown(t).done /\ Shown(t).ok /\ Shown(t).text = t
BY DEF Shown

LEMMA DoneIs ==
  ASSUME NEW o
  PROVE Done(o).done /\ Done(o).ok = o.ok /\ Done(o).text = o.text
BY DEF Done

LEMMA UndrawnIs == ~Undrawn.ok
BY DEF Undrawn

LEMMA SomethingDrawn ==
  ASSUME DrawnInv, subject.kind = "string" \/ subject.kind = "units"
  PROVE  subject \in Subjects /\ drawn = Rendered(subject)
<1>1. NoSubject.kind = "none"
  BY DEF NoSubject
<1>2. subject # NoSubject
  BY <1>1
<1> QED
  BY <1>2 DEF DrawnInv

LEMMA DrawnStrings ==
  ASSUME SubjectsAreStrings, DrawnInv PROVE StringsSurvive
<1>1. ASSUME subject.kind = "string", drawn.ok
      PROVE  LET back == ReadString(drawn.text)
             IN back.ok /\ CodePoints(back.text) = CodePoints(subject.text)
  <2>2. subject \in Subjects /\ drawn = Rendered(subject)
    BY <1>1, SomethingDrawn
  <2>3. subject.text \in Texts
    BY <1>1, <2>2, GivenIs
  <2>4. drawn.text = WriteString(subject.text)
    BY <1>1, <2>2, StringIsDrawn, ShownIs
  <2>5. Fine(ReadString(drawn.text), CodePoints(subject.text))
    BY <2>3, <2>4, WrittenReadsBack
  <2> QED
    BY <2>5 DEF Fine
<1>2. ASSUME subject.kind = "units", drawn.done
      PROVE  IF Utf16(subject.units).ok
               THEN drawn.ok /\ CodePoints(drawn.text) = Utf16(subject.units).text
               ELSE ~drawn.ok
  <2>1. subject \in Subjects /\ drawn = Rendered(subject)
    BY <1>2, SomethingDrawn
  <2>2. PICK u : u = subject.units
    OBVIOUS
  <2>3. Units(u)
    BY <1>2, <2>1, <2>2, GivenIs
  <2>4. PICK o : o = ReadString(Escaped(u))
    OBVIOUS
  <2>5. (drawn.ok <=> o.ok) /\ drawn.text = o.text
    BY <1>2, <2>1, <2>2, <2>4, UnitsAreDrawn, DoneIs
  <2>6. CASE Paired(u)
    <3>1. Fine(o, Utf16From(u)[1])
      BY <2>3, <2>4, <2>6, EscapedReadsBack
    <3>2. Utf16(u).ok /\ Utf16(u).text = Utf16From(u)[1]
      BY <2>6, Utf16Is, ShownIs
    <3> QED
      BY <2>2, <2>5, <3>1, <3>2 DEF Fine
  <2>7. CASE ~Paired(u)
    <3>1. ~o.ok
      BY <2>3, <2>4, <2>7, EscapedReadsBack
    <3>2. ~Utf16(u).ok
      BY <2>7, Utf16Is, UndrawnIs
    <3> QED
      BY <2>2, <2>5, <3>1, <3>2
  <2> QED
    BY <2>6, <2>7
<1> QED
  BY <1>1, <1>2 DEF StringsSurvive

(* Strings survive: any text that is written as a JSON string (output.c) and read
   back by the request's reader (request_json.c) has the same code points, the
   replacement character for what is no UTF-8, and any row of \u escapes is
   read as the UTF-16 it is, or refused. *)
THEOREM StringsSurviveHolds ==
  ASSUME SubjectsAreStrings PROVE RenderingSpec => []StringsSurvive
<1>1. RenderingInit => DrawnInv
  BY DEF RenderingInit, DrawnInv
<1>2. ASSUME DrawnInv, [Draw]_<<subject, drawn>> PROVE DrawnInv'
  <2>1. CASE Draw
    <3>1. PICK s \in Subjects : subject' = s /\ drawn' = Rendered(s)
      BY <2>1 DEF Draw
    <3>2. subject' \in Subjects /\ drawn' = Rendered(subject')
      BY <3>1
    <3> QED
      BY <3>2 DEF DrawnInv
  <2>2. CASE UNCHANGED <<subject, drawn>>
    BY <1>2, <2>2 DEF DrawnInv
  <2> QED
    BY <1>2, <2>1, <2>2
<1>3. DrawnInv => StringsSurvive
  BY DrawnStrings
<1> QED
  BY <1>1, <1>2, <1>3, PTL DEF RenderingSpec
==============================================================================
