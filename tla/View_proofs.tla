----------------------------- MODULE View_proofs -----------------------------
(***************************************************************************)
(* Theorems about View, for documents of any length and tables of any      *)
(* number of rows.  A document is followed mark by mark: what a browser    *)
(* that reads so (InComment) skips as a comment is what the code's find    *)
(* loop covers, and each of the four rewritings is followed through the    *)
(* positions it shifts.                                                    *)
(***************************************************************************)
EXTENDS View, DataInduction

-----------------------------------------------------------------------------
(* What the code covers as comments is what InComment reads as comments    *)

\* A nonempty set of positions has a first one.
LEMMA FirstIs ==
  ASSUME NEW n \in Nat, NEW T \in SUBSET (1..n), T # {}
  PROVE  First(T) \in T /\ \A j \in T : First(T) <= j
<1> DEFINE P == {i \in 0..n : \A j \in T : i < j}
<1>1. \E i \in T : \A j \in T : i <= j
  <2> SUFFICES ASSUME \A i \in T : \E j \in T : ~(i <= j)  PROVE FALSE  OBVIOUS
  <2>1. 0 \in P  OBVIOUS
  <2>2. ASSUME NEW i \in 0..n - 1, i \in P  PROVE i + 1 \in P
    <3>1. i + 1 \notin T
      <4> SUFFICES ASSUME i + 1 \in T  PROVE FALSE  OBVIOUS
      <4>1. PICK j \in T : ~(i + 1 <= j)  OBVIOUS
      <4>2. i < j  BY <2>2
      <4>3. QED  BY <4>1, <4>2
    <3>2. QED  BY <2>2, <3>1
  <2>3. \A i \in 0..n : i \in P
    <3> HIDE DEF P
    <3> QED  BY <2>1, <2>2, UpTo
  <2>4. n \in P  BY <2>3
  <2>5. PICK j \in T : n < j  BY <2>4
  <2>6. QED  BY <2>5
<1>2. QED  BY <1>1 DEF First

LEMMA MarkedIs ==
  ASSUME NEW doc, NEW mark, NEW n \in Nat, NEW from \in 1..n + 1, Len(doc) = n
  PROVE  Marked(doc, mark, from) \in SUBSET (1..n)
  BY DEF Marked

\* How a browser reads a document, one mark after the other
Reads(in, doc, n) ==
    in = [i \in 0..n |-> i > 0 /\ IF in[i - 1] THEN doc[i] # "close" ELSE doc[i] = "open"]

LEMMA ReadsExist ==
  ASSUME NEW doc, NEW n \in Nat
  PROVE  \E in : Reads(in, doc, n)
<1> DEFINE P == {i \in 0..n : \E in : Reads(in, doc, i)}
<1>1. 0 \in P
  <2> DEFINE in == [i \in 0..0 |-> FALSE]
  <2>1. \A i \in 0..0 : ~(i > 0) /\ in[i] = FALSE  OBVIOUS
  <2>2. in = [i \in 0..0 |-> in[i]]  OBVIOUS
  <2> HIDE DEF in
  <2>3. \A i \in 0..0 : in[i] = (i > 0 /\ IF in[i - 1] THEN doc[i] # "close" ELSE doc[i] = "open")
    BY <2>1, Zenon
  <2>4. Reads(in, doc, 0)  BY <2>2, <2>3, Zenon DEF Reads
  <2>5. QED  BY <2>4
<1>2. ASSUME NEW i \in 0..n - 1, i \in P  PROVE i + 1 \in P
  <2>1. PICK in : Reads(in, doc, i)  BY <1>2
  <2> DEFINE last == IF in[i] THEN doc[i + 1] # "close" ELSE doc[i + 1] = "open"
             more == [j \in 0..i + 1 |-> IF j = i + 1 THEN last ELSE in[j]]
  <2>2. \A j \in 0..i : more[j] = (j > 0 /\ IF more[j - 1] THEN doc[j] # "close" ELSE doc[j] = "open")
    <3> HIDE DEF last
    <3> SUFFICES ASSUME NEW j \in 0..i
                 PROVE  more[j] = (j > 0 /\ IF more[j - 1] THEN doc[j] # "close" ELSE doc[j] = "open")
      OBVIOUS
    <3>1. more[j] = in[j] /\ (j > 0 => more[j - 1] = in[j - 1])  OBVIOUS
    <3> HIDE DEF more
    <3>2. QED  BY <2>1, <3>1 DEF Reads
  <2>3. more[i + 1] = (i + 1 > 0 /\ IF more[(i + 1) - 1] THEN doc[i + 1] # "close" ELSE doc[i + 1] = "open")
    <3>1. more[i + 1] = last /\ more[(i + 1) - 1] = in[i]  OBVIOUS
    <3> HIDE DEF more
    <3>2. QED  BY <3>1
  <2>4. Reads(more, doc, i + 1)
    <3>1. more = [j \in 0..i + 1 |-> more[j]]  OBVIOUS
    <3> HIDE DEF more
    <3>2. \A j \in 0..i + 1 : more[j] = (j > 0 /\ IF more[j - 1] THEN doc[j] # "close" ELSE doc[j] = "open")
      BY <2>2, <2>3
    <3>3. QED  BY <3>1, <3>2 DEF Reads
  <2>5. QED  BY <2>4
<1>3. \A i \in 0..n : i \in P
  <2> HIDE DEF P
  <2> QED  BY <1>1, <1>2, UpTo
<1>4. QED  BY <1>3

LEMMA ReadingIs ==
  ASSUME NEW S, NEW doc \in Seq(S)
  PROVE  /\ ~InComment(doc)[0]
         /\ \A i \in 1..Len(doc) : InComment(doc)[i]
              <=> IF InComment(doc)[i - 1] THEN doc[i] # "close" ELSE doc[i] = "open"
<1>1. \E in : Reads(in, doc, Len(doc))  BY ReadsExist
<1>2. InComment(doc) = CHOOSE in : Reads(in, doc, Len(doc))  BY DEF InComment, Reads
<1>3. Reads(InComment(doc), doc, Len(doc))
  <2> DEFINE R(in) == Reads(in, doc, Len(doc))
  <2> HIDE DEF R
  <2>1. \E in : R(in)  BY <1>1 DEF R
  <2>2. R(CHOOSE in : R(in))  BY <2>1
  <2>3. QED  BY <1>2, <2>2 DEF R
<1> DEFINE in == InComment(doc)
<1> HIDE DEF in
<1>4. Len(doc) \in Nat  OBVIOUS
<1>5. ~in[0]
  <2>1. 0 \in 0..Len(doc)  BY <1>4
  <2>2. in[0] = (0 > 0 /\ IF in[0 - 1] THEN doc[0] # "close" ELSE doc[0] = "open")
    BY <1>3, <2>1, Zenon DEF Reads, in
  <2>3. ~(0 > 0)  OBVIOUS
  <2>4. QED  BY <2>2, <2>3, Zenon
<1>6. ASSUME NEW i \in 1..Len(doc)
      PROVE  in[i] <=> IF in[i - 1] THEN doc[i] # "close" ELSE doc[i] = "open"
  <2>1. i \in 0..Len(doc) /\ i > 0  BY <1>4
  <2>2. in[i] = (i > 0 /\ IF in[i - 1] THEN doc[i] # "close" ELSE doc[i] = "open")
    BY <1>3, <2>1, Zenon DEF Reads, in
  <2>3. QED  BY <2>1, <2>2
<1>7. QED  BY <1>5, <1>6 DEF in

\* Outside comments without an opening, or inside without a closing, nothing changes.
LEMMA StaysOutside ==
  ASSUME NEW S, NEW doc \in Seq(S), NEW a \in 0..Len(doc), NEW b \in a..Len(doc),
         ~InComment(doc)[a], \A i \in a + 1..b : doc[i] # "open"
  PROVE  \A i \in a..b : ~InComment(doc)[i]
<1> DEFINE in == InComment(doc)
           P == {i \in 0..b - a : ~in[a + i]}
<1> HIDE DEF in
<1>1. b - a \in Nat  OBVIOUS
<1>2. 0 \in P  BY DEF in
<1>3. ASSUME NEW i \in 0..(b - a) - 1, i \in P  PROVE i + 1 \in P
  <2>1. a + (i + 1) \in 1..Len(doc) /\ a + (i + 1) \in a + 1..b /\ (a + (i + 1)) - 1 = a + i  OBVIOUS
  <2>2. in[a + (i + 1)] <=> IF in[a + i] THEN doc[a + (i + 1)] # "close" ELSE doc[a + (i + 1)] = "open"
    BY <2>1, ReadingIs DEF in
  <2>3. QED  BY <1>3, <2>1, <2>2
<1>4. \A i \in 0..b - a : i \in P
  <2> HIDE DEF P
  <2> QED  BY <1>1, <1>2, <1>3, UpTo
<1>5. ASSUME NEW i \in a..b  PROVE ~in[i]
  <2>1. i - a \in P /\ a + (i - a) = i  BY <1>4
  <2>2. QED  BY <2>1
<1>6. QED  BY <1>5 DEF in

LEMMA StaysInside ==
  ASSUME NEW S, NEW doc \in Seq(S), NEW a \in 0..Len(doc), NEW b \in a..Len(doc),
         InComment(doc)[a], \A i \in a + 1..b : doc[i] # "close"
  PROVE  \A i \in a..b : InComment(doc)[i]
<1> DEFINE in == InComment(doc)
           P == {i \in 0..b - a : in[a + i]}
<1> HIDE DEF in
<1>1. b - a \in Nat  OBVIOUS
<1>2. 0 \in P  BY DEF in
<1>3. ASSUME NEW i \in 0..(b - a) - 1, i \in P  PROVE i + 1 \in P
  <2>1. a + (i + 1) \in 1..Len(doc) /\ a + (i + 1) \in a + 1..b /\ (a + (i + 1)) - 1 = a + i  OBVIOUS
  <2>2. in[a + (i + 1)] <=> IF in[a + i] THEN doc[a + (i + 1)] # "close" ELSE doc[a + (i + 1)] = "open"
    BY <2>1, ReadingIs DEF in
  <2>3. QED  BY <1>3, <2>1, <2>2
<1>4. \A i \in 0..b - a : i \in P
  <2> HIDE DEF P
  <2> QED  BY <1>1, <1>2, <1>3, UpTo
<1>5. ASSUME NEW i \in a..b  PROVE in[i]
  <2>1. i - a \in P /\ a + (i - a) = i  BY <1>4
  <2>2. QED  BY <2>1
<1>6. QED  BY <1>5 DEF in

\* What the find loop covers from a position on
Covers(spans, doc, from) ==
    spans = [pos \in from..Len(doc) + 1 |->
               LET starts == Marked(doc, "open", pos) IN
               IF starts = {} THEN {}
               ELSE LET ends == Marked(doc, "close", First(starts) + 1) IN
                    IF ends = {} THEN First(starts)..Len(doc)
                    ELSE First(starts)..First(ends) \cup spans[First(ends) + 1]]

Cover(spans, doc, pos) ==
    LET starts == Marked(doc, "open", pos) IN
    IF starts = {} THEN {}
    ELSE LET ends == Marked(doc, "close", First(starts) + 1) IN
         IF ends = {} THEN First(starts)..Len(doc)
         ELSE First(starts)..First(ends) \cup spans[First(ends) + 1]

LEMMA CoversIs ==
  ASSUME NEW doc, NEW from, NEW spans
  PROVE  Covers(spans, doc, from) <=> spans = [pos \in from..Len(doc) + 1 |-> Cover(spans, doc, pos)]
  BY DEF Covers, Cover

LEMMA CoverLater ==
  ASSUME NEW S, NEW doc \in Seq(S), NEW pos \in 1..Len(doc) + 1, NEW spans, NEW others,
         \A q \in pos + 1..Len(doc) + 1 : spans[q] = others[q]
  PROVE  Cover(spans, doc, pos) = Cover(others, doc, pos)
<1> DEFINE starts == Marked(doc, "open", pos)
           ends   == Marked(doc, "close", First(starts) + 1)
<1>1. CASE starts # {} /\ ends # {}
  <2>1. starts \in SUBSET (pos..Len(doc)) /\ starts \in SUBSET (1..Len(doc))  BY DEF Marked
  <2>2. First(starts) \in starts
    <3>1. Len(doc) \in Nat  OBVIOUS
    <3> HIDE DEF starts
    <3>2. QED  BY <1>1, <2>1, <3>1, FirstIs
  <2>3. ends \in SUBSET (First(starts) + 1..Len(doc)) /\ ends \in SUBSET (1..Len(doc))
    <3> DEFINE s == First(starts)
    <3>1. s \in pos..Len(doc)  BY <2>1, <2>2
    <3> HIDE DEF s
    <3>2. Marked(doc, "close", s + 1) \in SUBSET (s + 1..Len(doc))  BY <3>1 DEF Marked
    <3>3. s + 1..Len(doc) \subseteq 1..Len(doc)  BY <3>1
    <3>4. QED  BY <3>2, <3>3 DEF s
  <2>4. First(ends) \in ends
    <3>1. Len(doc) \in Nat  OBVIOUS
    <3> HIDE DEF ends
    <3>2. QED  BY <1>1, <2>3, <3>1, FirstIs
  <2>5. spans[First(ends) + 1] = others[First(ends) + 1]
    <3>1. First(starts) \in pos..Len(doc) /\ First(ends) \in First(starts) + 1..Len(doc)
      BY <2>1, <2>2, <2>3, <2>4
    <3> HIDE DEF starts, ends
    <3>2. First(ends) + 1 \in pos + 1..Len(doc) + 1  BY <3>1
    <3>3. QED  BY <3>2
  <2>6. QED  BY <2>5, Zenon DEF Cover
<1>2. QED  BY <1>1, Zenon DEF Cover

LEMMA CoversExist ==
  ASSUME NEW S, NEW doc \in Seq(S)
  PROVE  \E spans : Covers(spans, doc, 1)
<1> DEFINE n == Len(doc)
           P == {i \in 0..n : \E spans : Covers(spans, doc, n + 1 - i)}
<1>0. n \in Nat  OBVIOUS
<1> HIDE DEF n
<1>1. 0 \in P
  <2> DEFINE spans == [pos \in n + 1..n + 1 |-> {}]
  <2>1. Marked(doc, "open", n + 1) = {}  BY <1>0 DEF Marked, n
  <2>2. Cover(spans, doc, n + 1) = {}  BY <2>1 DEF Cover
  <2>3. \A pos \in n + 1..n + 1 : pos = n + 1 BY <1>0
  <2>4. spans = [pos \in n + 1..n + 1 |-> Cover(spans, doc, pos)]  BY <2>2, <2>3
  <2>5. Covers(spans, doc, n + 1)  BY <2>4, CoversIs DEF n
  <2>6. QED  BY <1>0, <2>5
<1>2. ASSUME NEW i \in 0..n - 1, i \in P  PROVE i + 1 \in P
  <2> DEFINE from == n - i
  <2>0. from \in 1..n /\ n + 1 - i = from + 1 /\ n + 1 - (i + 1) = from  BY <1>0
  <2>1. PICK spans : Covers(spans, doc, from + 1)  BY <1>2, <2>0
  <2> HIDE DEF from
  <2> DEFINE more == [pos \in from..n + 1 |-> IF pos = from THEN Cover(spans, doc, from) ELSE spans[pos]]
  <2>2. /\ more[from] = Cover(spans, doc, from)
        /\ \A q \in from + 1..n + 1 : more[q] = spans[q]
    BY <1>0, <2>0
  <2>3. more = [pos \in from..n + 1 |-> more[pos]]  OBVIOUS
  <2> HIDE DEF more
  <2>4. ASSUME NEW pos \in from..n + 1  PROVE more[pos] = Cover(more, doc, pos)
    <3>0. pos \in 1..n + 1 /\ \A q \in pos + 1..n + 1 : q \in from + 1..n + 1  BY <1>0, <2>0
    <3>1. Cover(more, doc, pos) = Cover(spans, doc, pos)
      BY <2>2, <3>0, CoverLater DEF n
    <3>2. CASE pos = from  BY <2>2, <3>1, <3>2
    <3>3. CASE pos # from
      <4>1. pos \in from + 1..n + 1  BY <1>0, <2>0, <3>3
      <4>2. spans[pos] = Cover(spans, doc, pos)
        <5>1. spans = [p \in from + 1..n + 1 |-> Cover(spans, doc, p)]  BY <2>1, CoversIs DEF n
        <5>2. QED  BY <4>1, <5>1, Zenon
      <4>3. QED  BY <2>2, <3>1, <4>1, <4>2
    <3>4. QED  BY <3>2, <3>3
  <2>5. more = [pos \in from..n + 1 |-> Cover(more, doc, pos)]  BY <2>3, <2>4, Zenon
  <2>6. Covers(more, doc, from)  BY <2>5, CoversIs DEF n
  <2>7. Covers(more, doc, n + 1 - (i + 1)) /\ i + 1 \in 0..n  BY <1>0, <2>0, <2>6
  <2>8. QED  BY <2>7
<1>3. \A i \in 0..n : i \in P
  <2> HIDE DEF P
  <2> QED  BY <1>0, <1>1, <1>2, UpTo
<1>4. n \in 0..n /\ n + 1 - n = 1  BY <1>0
<1>5. \E spans : Covers(spans, doc, n + 1 - n)  BY <1>3, <1>4, Zenon
<1>6. QED  BY <1>4, <1>5
LEMMA SpansAre ==
  ASSUME NEW S, NEW doc \in Seq(S)
  PROVE  \E spans : /\ CommentSpans(doc) = spans[1]
                    /\ \A pos \in 1..Len(doc) + 1 : spans[pos] = Cover(spans, doc, pos)
<1> DEFINE C(spans) == Covers(spans, doc, 1)
<1>1. CommentSpans(doc) = (CHOOSE spans : C(spans))[1]  BY DEF CommentSpans, Covers
<1>2. \E spans : C(spans)  BY CoversExist
<1> HIDE DEF C
<1>3. C(CHOOSE spans : C(spans))  BY <1>2
<1> DEFINE spans == CHOOSE spans : C(spans)
<1>4. Covers(spans, doc, 1)  BY <1>3 DEF C
<1> HIDE DEF spans
<1>5. spans = [pos \in 1..Len(doc) + 1 |-> Cover(spans, doc, pos)]  BY <1>4, CoversIs
<1>6. \A pos \in 1..Len(doc) + 1 : spans[pos] = Cover(spans, doc, pos)  BY <1>5, Zenon
<1>7. QED  BY <1>1, <1>6 DEF spans

\* What a browser does not read, from a position on
Hidden(doc, pos) == {i \in pos..Len(doc) : InComment(doc)[i - 1] \/ doc[i] = "open"}

LEMMA CoverHides ==
  ASSUME NEW S, NEW doc \in Seq(S), NEW pos \in 1..Len(doc) + 1, NEW spans,
         ~InComment(doc)[pos - 1],
         \A q \in pos + 1..Len(doc) + 1 : ~InComment(doc)[q - 1] => spans[q] = Hidden(doc, q)
  PROVE  Cover(spans, doc, pos) = Hidden(doc, pos)
<1> DEFINE n      == Len(doc)
           in     == InComment(doc)
           starts == Marked(doc, "open", pos)
           s      == First(starts)
           ends   == Marked(doc, "close", s + 1)
           e      == First(ends)
<1>0. n \in Nat /\ pos - 1 \in 0..n  OBVIOUS
<1> HIDE DEF in
<1>1. CASE starts = {}
  <2>1. \A i \in pos..n : doc[i] # "open"  BY <1>1 DEF Marked
  <2>2. (pos - 1) + 1 = pos /\ n \in pos - 1..n  BY <1>0
  <2>3. \A i \in pos - 1..n : ~in[i]  BY <1>0, <2>1, <2>2, StaysOutside DEF in
  <2>4. \A i \in pos..n : i - 1 \in pos - 1..n  BY <1>0
  <2>5. Hidden(doc, pos) = {}  BY <2>1, <2>3, <2>4 DEF Hidden, in
  <2>6. Cover(spans, doc, pos) = {}  BY <1>1 DEF Cover
  <2>7. QED  BY <2>5, <2>6
<1>2. CASE starts # {}
  <2>1. starts \in SUBSET (1..n) /\ starts \subseteq pos..n  BY DEF Marked
  <2>2. s \in starts /\ \A j \in starts : s <= j
    <3> HIDE DEF starts, n
    <3> QED  BY <1>0, <1>2, <2>1, FirstIs
  <2>3. doc[s] = "open" /\ s \in pos..n  BY <2>2 DEF Marked
  <2> HIDE DEF s
  <2>4. \A i \in pos..s - 1 : doc[i] # "open"
    <3>1. \A i \in pos..s - 1 : i \in pos..n /\ ~(s <= i)  BY <2>3
    <3>2. QED  BY <2>2, <3>1 DEF Marked
  <2>5. \A i \in pos - 1..s - 1 : ~in[i]
    <3>1. (pos - 1) + 1 = pos /\ s - 1 \in pos - 1..n  BY <1>0, <2>3
    <3>2. QED  BY <1>0, <2>4, <3>1, StaysOutside DEF in
  <2>6. in[s]
    <3>1. s \in 1..n /\ s - 1 \in pos - 1..s - 1  BY <1>0, <2>3
    <3>2. in[s] <=> IF in[s - 1] THEN doc[s] # "close" ELSE doc[s] = "open"
      BY <3>1, ReadingIs DEF in
    <3>3. QED  BY <2>3, <2>5, <3>1, <3>2
  <2>7. \A i \in pos..s - 1 : i \notin Hidden(doc, pos)
    <3>1. \A i \in pos..s - 1 : i - 1 \in pos - 1..s - 1  BY <2>3
    <3>2. QED  BY <2>4, <2>5, <3>1 DEF Hidden, in
  <2>8. CASE ends = {}
    <3>1. \A i \in s + 1..n : doc[i] # "close"  BY <2>8 DEF Marked
    <3>2. s \in 0..n /\ n \in s..n  BY <1>0, <2>3
    <3>3. \A i \in s..n : in[i]  BY <2>6, <3>1, <3>2, StaysInside DEF in
    <3>4. ASSUME NEW i \in s..n  PROVE i \in Hidden(doc, pos)
      <4>1. i \in pos..n  BY <1>0, <2>3
      <4>2. CASE i = s  BY <2>3, <4>1, <4>2 DEF Hidden
      <4>3. CASE i # s
        <5>1. i - 1 \in s..n  BY <1>0, <2>3, <4>3
        <5>2. QED  BY <3>3, <4>1, <5>1 DEF Hidden, in
      <4>4. QED  BY <4>2, <4>3
    <3>5. Hidden(doc, pos) \subseteq pos..n  BY DEF Hidden
    <3>6. \A i \in pos..n : i \in pos..s - 1 \/ i \in s..n  BY <1>0, <2>3
    <3>7. Hidden(doc, pos) = s..n
      <4>1. s..n \subseteq Hidden(doc, pos)  BY <3>4
      <4>2. \A i \in Hidden(doc, pos) : i \in s..n  BY <2>7, <3>5, <3>6
      <4>3. QED  BY <4>1, <4>2
    <3>8. Cover(spans, doc, pos) = s..n  BY <1>2, <2>8, Zenon DEF Cover, s
    <3>9. QED  BY <3>7, <3>8
  <2>9. CASE ends # {}
    <3>1. ends \in SUBSET (1..n) /\ ends \subseteq s + 1..n  BY <1>0, <2>3 DEF Marked
    <3>2. e \in ends /\ \A j \in ends : e <= j
      <4> HIDE DEF ends, n
      <4> QED  BY <1>0, <2>9, <3>1, FirstIs
    <3>3. doc[e] = "close" /\ e \in s + 1..n  BY <3>2 DEF Marked
    <3> HIDE DEF e
    <3>4. \A i \in s + 1..e - 1 : doc[i] # "close"
      <4>1. \A i \in s + 1..e - 1 : i \in s + 1..n /\ ~(e <= i)  BY <1>0, <2>3, <3>3
      <4>2. QED  BY <3>2, <4>1 DEF Marked
    <3>5. \A i \in s..e - 1 : in[i]
      <4>1. s \in 0..n /\ e - 1 \in s..n  BY <1>0, <2>3, <3>3
      <4>2. QED  BY <2>6, <3>4, <4>1, StaysInside DEF in
    <3>6. ~in[e]
      <4>1. e \in 1..n /\ e - 1 \in s..e - 1  BY <1>0, <2>3, <3>3
      <4>2. in[e] <=> IF in[e - 1] THEN doc[e] # "close" ELSE doc[e] = "open"
        BY <4>1, ReadingIs DEF in
      <4>3. QED  BY <3>3, <3>5, <4>1, <4>2
    <3>7. ASSUME NEW i \in s..e  PROVE i \in Hidden(doc, pos)
      <4>1. i \in pos..n  BY <1>0, <2>3, <3>3
      <4>2. CASE i = s  BY <2>3, <4>1, <4>2 DEF Hidden
      <4>3. CASE i # s
        <5>1. i - 1 \in s..e - 1  BY <1>0, <2>3, <3>3, <4>3
        <5>2. QED  BY <3>5, <4>1, <5>1 DEF Hidden, in
      <4>4. QED  BY <4>2, <4>3
    <3>8. spans[e + 1] = Hidden(doc, e + 1)
      <4>1. e + 1 \in pos + 1..n + 1 /\ (e + 1) - 1 = e  BY <1>0, <2>3, <3>3
      <4>2. QED  BY <3>6, <4>1 DEF in
    <3>9. \A i \in pos..n : i \in pos..s - 1 \/ i \in s..e \/ i \in e + 1..n  BY <1>0, <2>3, <3>3
    <3>10. \A i \in e + 1..n : i \in pos..n  BY <1>0, <2>3, <3>3
    <3>11. \A i : i \in Hidden(doc, pos) <=> i \in s..e \/ i \in Hidden(doc, e + 1)
      <4>1. \A i \in s..e : i \notin pos..s - 1  BY <1>0, <2>3, <3>3
      <4>2. ASSUME NEW i \in Hidden(doc, pos)  PROVE i \in s..e \/ i \in Hidden(doc, e + 1)
        <5>1. i \in pos..n /\ (in[i - 1] \/ doc[i] = "open")  BY <4>2 DEF Hidden, in
        <5>2. i \notin pos..s - 1  BY <2>7
        <5>3. QED  BY <3>9, <5>1, <5>2 DEF Hidden, in
      <4>3. ASSUME NEW i \in Hidden(doc, e + 1)  PROVE i \in Hidden(doc, pos)
        BY <3>10, <4>3 DEF Hidden
      <4>4. QED  BY <3>7, <4>2, <4>3
    <3>12. Cover(spans, doc, pos) = s..e \cup spans[e + 1]
      BY <1>2, <2>9, Zenon DEF Cover, s, e
    <3>13. QED  BY <3>8, <3>11, <3>12
  <2>10. QED  BY <2>8, <2>9
<1>3. QED  BY <1>1, <1>2

\* The find loop and a browser agree on what is a comment.
LEMMA SpansAreHidden ==
  ASSUME NEW S, NEW doc \in Seq(S)
  PROVE  \A i \in DOMAIN doc : i \in Live(doc) <=> i \notin CommentSpans(doc)
<1> DEFINE n  == Len(doc)
           in == InComment(doc)
<1>0. n \in Nat  OBVIOUS
<1>1. PICK spans : /\ CommentSpans(doc) = spans[1]
                   /\ \A pos \in 1..n + 1 : spans[pos] = Cover(spans, doc, pos)
  BY SpansAre
<1> DEFINE Right(q) == ~in[q - 1] => spans[q] = Hidden(doc, q)
           P == {i \in 0..n : \A q \in n + 1 - i..n + 1 : Right(q)}
<1> HIDE DEF in, n
<1>2. ASSUME NEW pos \in 1..n + 1, \A q \in pos + 1..n + 1 : Right(q)  PROVE Right(pos)
  <2>1. CASE in[pos - 1]  BY <2>1
  <2>2. CASE ~in[pos - 1]
    <3>1. Cover(spans, doc, pos) = Hidden(doc, pos)  BY <1>2, <2>2, CoverHides DEF in, n
    <3>2. QED  BY <1>1, <3>1
  <2>3. QED  BY <2>1, <2>2
<1> HIDE DEF Right
<1>3. 0 \in P
  <2>1. n + 1 \in 1..n + 1 /\ \A q \in (n + 1) + 1..n + 1 : FALSE  BY <1>0
  <2>2. Right(n + 1)  BY <1>2, <2>1
  <2>3. \A q \in n + 1 - 0..n + 1 : q = n + 1  BY <1>0
  <2>4. QED  BY <1>0, <2>2, <2>3
<1>4. ASSUME NEW i \in 0..n - 1, i \in P  PROVE i + 1 \in P
  <2>1. \A q \in (n - i) + 1..n + 1 : q \in n + 1 - i..n + 1  BY <1>0
  <2>2. n - i \in 1..n + 1  BY <1>0
  <2>3. Right(n - i)  BY <1>2, <1>4, <2>1, <2>2
  <2>4. \A q \in n + 1 - (i + 1)..n + 1 : q = n - i \/ q \in n + 1 - i..n + 1  BY <1>0
  <2>5. \A q \in n + 1 - (i + 1)..n + 1 : Right(q)  BY <1>4, <2>3, <2>4
  <2>6. i + 1 \in 0..n  BY <1>0
  <2>7. QED  BY <2>5, <2>6
<1>5. \A i \in 0..n : i \in P
  <2> HIDE DEF P
  <2> QED  BY <1>0, <1>3, <1>4, UpTo
<1>6. Right(1)
  <2>1. n \in 0..n /\ 1 \in n + 1 - n..n + 1  BY <1>0
  <2>2. QED  BY <1>5, <2>1
<1>7. CommentSpans(doc) = Hidden(doc, 1)
  <2>1. ~in[1 - 1]  BY ReadingIs DEF in
  <2>2. QED  BY <1>1, <1>6, <2>1 DEF Right
<1>8. QED  BY <1>7 DEF Hidden, Live

LEMMA LiveIs ==
  ASSUME NEW S, NEW doc \in Seq(S), NEW mark
  PROVE  /\ mark \in LiveMarks(doc) <=> \E i \in 1..Len(doc) : i \in Live(doc) /\ doc[i] = mark
         /\ Mentions(doc, mark) <=> mark \in LiveMarks(doc)
         /\ \A i \in 1..Len(doc) : i \in Live(doc) <=> ~InComment(doc)[i - 1] /\ doc[i] # "open"
<1>1. DOMAIN doc = 1..Len(doc)  OBVIOUS
<1>2. Live(doc) \subseteq DOMAIN doc  BY DEF Live
<1>3. \A i \in 1..Len(doc) : i \in Live(doc) <=> ~InComment(doc)[i - 1] /\ doc[i] # "open"
  BY <1>1 DEF Live
<1>4. mark \in LiveMarks(doc) <=> \E i \in 1..Len(doc) : i \in Live(doc) /\ doc[i] = mark
  BY <1>1, <1>2 DEF LiveMarks
<1>5. Mentions(doc, mark) <=> mark \in LiveMarks(doc)
  <2>1. \A i \in 1..Len(doc) : i \in Live(doc) <=> i \notin CommentSpans(doc)
    BY <1>1, SpansAreHidden
  <2>2. Mentions(doc, mark) <=> \E i \in 1..Len(doc) : i \notin CommentSpans(doc) /\ doc[i] = mark
    BY <1>1 DEF Mentions
  <2>3. QED  BY <1>4, <2>1, <2>2
<1>6. QED  BY <1>3, <1>4, <1>5

-----------------------------------------------------------------------------
(* An asset put into a document moves comments, and changes none.           *)

Spliced(new, doc, k, asset) ==
    /\ Len(new) = Len(doc) + 1 /\ new[k + 1] = asset
    /\ \A i \in 1..k : new[i] = doc[i]
    /\ \A i \in k + 1..Len(doc) : new[i + 1] = doc[i]

LEMMA SpliceIs ==
  ASSUME NEW S, NEW doc \in Seq(S), NEW asset \in S
  PROVE  /\ \A k \in 0..Len(doc) : /\ Splice(doc, k, asset) \in Seq(S)
                                   /\ Spliced(Splice(doc, k, asset), doc, k, asset)
         /\ Append(doc, asset) \in Seq(S) /\ Spliced(Append(doc, asset), doc, Len(doc), asset)
         /\ <<asset>> \o doc \in Seq(S) /\ Spliced(<<asset>> \o doc, doc, 0, asset)
<1>1. ASSUME NEW k \in 0..Len(doc)
      PROVE  Splice(doc, k, asset) \in Seq(S) /\ Spliced(Splice(doc, k, asset), doc, k, asset)
  <2> DEFINE before == SubSeq(doc, 1, k)
             after  == SubSeq(doc, k + 1, Len(doc))
             put    == before \o <<asset>>
  <2>0. Len(doc) \in Nat  OBVIOUS
  <2>1. before \in Seq(S) /\ Len(before) = k /\ \A i \in 1..k : before[i] = doc[i]
    <3>1. \A i \in 1..k : doc[i] \in S  BY <2>0
    <3>2. QED  BY <2>0, <3>1
  <2>2. /\ after \in Seq(S) /\ Len(after) = Len(doc) - k
        /\ \A i \in 1..Len(doc) - k : after[i] = doc[k + i]
    <3>1. \A i \in k + 1..Len(doc) : doc[i] \in S  BY <2>0
    <3>2. QED  BY <2>0, <3>1
  <2> HIDE DEF before, after
  <2>3. put \in Seq(S) /\ Len(put) = k + 1 /\ put[k + 1] = asset /\ \A i \in 1..k : put[i] = doc[i]
    BY <2>1
  <2> HIDE DEF put
  <2>4. /\ put \o after \in Seq(S) /\ Len(put \o after) = Len(doc) + 1
        /\ \A i \in 1..Len(doc) + 1 : (put \o after)[i] = IF i <= k + 1 THEN put[i] ELSE after[i - (k + 1)]
    BY <2>0, <2>2, <2>3
  <2>5. Splice(doc, k, asset) = put \o after  BY DEF Splice, put, before, after
  <2> DEFINE new == put \o after
  <2>6. new \in Seq(S) /\ Len(new) = Len(doc) + 1  BY <2>4
  <2>7. new[k + 1] = asset /\ \A i \in 1..k : new[i] = doc[i]  BY <2>0, <2>3, <2>4
  <2>8. ASSUME NEW i \in k + 1..Len(doc)  PROVE new[i + 1] = doc[i]
    <3>1. i + 1 \in 1..Len(doc) + 1 /\ ~(i + 1 <= k + 1) /\ (i + 1) - (k + 1) = i - k  BY <2>0
    <3>2. i - k \in 1..Len(doc) - k /\ k + (i - k) = i  BY <2>0
    <3>3. QED  BY <2>2, <2>4, <3>1, <3>2
  <2> HIDE DEF new
  <2>9. Spliced(new, doc, k, asset)  BY <2>6, <2>7, <2>8 DEF Spliced
  <2>10. QED  BY <2>5, <2>6, <2>9 DEF new
<1>2. Append(doc, asset) \in Seq(S) /\ Spliced(Append(doc, asset), doc, Len(doc), asset)
  BY DEF Spliced
<1>3. <<asset>> \o doc \in Seq(S) /\ Spliced(<<asset>> \o doc, doc, 0, asset)
  <2>1. <<asset>> \in Seq(S) /\ Len(<<asset>>) = 1 /\ <<asset>>[1] = asset  OBVIOUS
  <2>2. /\ <<asset>> \o doc \in Seq(S) /\ Len(<<asset>> \o doc) = Len(doc) + 1
        /\ \A i \in 1..Len(doc) + 1 : (<<asset>> \o doc)[i] = IF i <= 1 THEN asset ELSE doc[i - 1]
    BY <2>1
  <2>3. \A i \in 0 + 1..Len(doc) : (<<asset>> \o doc)[i + 1] = doc[i]
    <3>1. \A i \in 0 + 1..Len(doc) : i + 1 \in 1..Len(doc) + 1 /\ ~(i + 1 <= 1) /\ (i + 1) - 1 = i
      OBVIOUS
    <3>2. QED  BY <2>2, <3>1
  <2>4. (<<asset>> \o doc)[0 + 1] = asset  BY <2>2
  <2>5. \A i \in 1..0 : FALSE  OBVIOUS
  <2>6. QED  BY <2>2, <2>3, <2>4, <2>5 DEF Spliced
<1>4. QED  BY <1>1, <1>2, <1>3

LEMMA SplicedReads ==
  ASSUME NEW S, NEW doc \in Seq(S), NEW new \in Seq(S), NEW asset, asset \notin {"open", "close"},
         NEW k \in 0..Len(doc), Spliced(new, doc, k, asset)
  PROVE  /\ \A i \in 0..k : InComment(new)[i] <=> InComment(doc)[i]
         /\ \A i \in k..Len(doc) : InComment(new)[i + 1] <=> InComment(doc)[i]
<1> DEFINE n   == Len(doc)
           in  == InComment(doc)
           out == InComment(new)
           Same(i) == (i <= k => (out[i] <=> in[i])) /\ (i >= k => (out[i + 1] <=> in[i]))
           P == {i \in 0..n : Same(i)}
<1>0. n \in Nat /\ Len(new) = n + 1  BY DEF Spliced
<1>1. /\ ~in[0] /\ ~out[0]
      /\ \A i \in 1..n : in[i] <=> IF in[i - 1] THEN doc[i] # "close" ELSE doc[i] = "open"
      /\ \A i \in 1..n + 1 : out[i] <=> IF out[i - 1] THEN new[i] # "close" ELSE new[i] = "open"
  BY <1>0, ReadingIs
<1>2. /\ new[k + 1] \notin {"open", "close"}
      /\ \A i \in 1..k : new[i] = doc[i]
      /\ \A i \in k + 1..n : new[i + 1] = doc[i]
  BY DEF Spliced
<1> HIDE DEF n, in, out
<1>3. out[k + 1] <=> out[k]
  <2>1. k + 1 \in 1..n + 1 /\ (k + 1) - 1 = k  BY <1>0 DEF n
  <2>2. QED  BY <1>1, <1>2, <2>1
<1>4. Same(0)
  <2>1. CASE k = 0  BY <1>1, <1>3, <2>1
  <2>2. CASE k # 0  BY <1>1, <2>2
  <2>3. QED  BY <2>1, <2>2
<1>5. ASSUME NEW i \in 0..n - 1, Same(i)  PROVE Same(i + 1)
  <2>0. i + 1 \in 1..n /\ (i + 1) - 1 = i /\ (i + 2) - 1 = i + 1 /\ i + 2 \in 1..n + 1 /\ i + 1 \in 1..n + 1
        /\ (i + 1) + 1 = i + 2
    BY <1>0
  <2>1. /\ in[i + 1] <=> IF in[i] THEN doc[i + 1] # "close" ELSE doc[i + 1] = "open"
        /\ out[i + 1] <=> IF out[i] THEN new[i + 1] # "close" ELSE new[i + 1] = "open"
        /\ out[i + 2] <=> IF out[i + 1] THEN new[i + 2] # "close" ELSE new[i + 2] = "open"
    BY <1>1, <2>0
  <2>2. CASE i + 1 <= k
    <3>1. i <= k /\ i + 1 \in 1..k  BY <2>0, <2>2
    <3>2. new[i + 1] = doc[i + 1] /\ (out[i] <=> in[i])  BY <1>2, <1>5, <3>1
    <3>3. out[i + 1] <=> in[i + 1]  BY <2>1, <3>2
    <3>4. CASE i + 1 = k
      <4>1. out[(i + 1) + 1] <=> in[i + 1]  BY <1>3, <3>3, <3>4
      <4>2. QED  BY <3>3, <4>1
    <3>5. CASE i + 1 # k
      <4>1. ~(i + 1 >= k)  BY <2>2, <3>5
      <4>2. QED  BY <3>3, <4>1
    <3>6. QED  BY <3>4, <3>5
  <2>3. CASE ~(i + 1 <= k)
    <3>1. i >= k /\ i + 1 \in k + 1..n  BY <2>0, <2>3
    <3>2. new[i + 2] = doc[i + 1] /\ (out[i + 1] <=> in[i])  BY <1>2, <1>5, <2>0, <3>1
    <3>3. out[(i + 1) + 1] <=> in[i + 1]  BY <2>0, <2>1, <3>2
    <3>4. QED  BY <2>3, <3>3
  <2>4. QED  BY <2>2, <2>3
<1>6. \A i \in 0..n : i \in P
  <2>1. 0 \in P  BY <1>0, <1>4
  <2>2. \A i \in 0..n - 1 : i \in P => i + 1 \in P  BY <1>0, <1>5
  <2> HIDE DEF P
  <2> QED  BY <1>0, <2>1, <2>2, UpTo
<1>7. \A i \in 0..k : i \in 0..n /\ i <= k  BY <1>0 DEF n
<1>8. \A i \in k..n : i \in 0..n /\ i >= k  BY <1>0
<1>9. QED  BY <1>6, <1>7, <1>8 DEF in, out, n

LEMMA SplicedLive ==
  ASSUME NEW S, NEW doc \in Seq(S), NEW new \in Seq(S), NEW asset, asset \notin {"open", "close"},
         NEW k \in 0..Len(doc), Spliced(new, doc, k, asset)
  PROVE  /\ \A i \in 1..k : i \in Live(new) <=> i \in Live(doc)
         /\ \A i \in k + 1..Len(doc) : i + 1 \in Live(new) <=> i \in Live(doc)
         /\ k + 1 \in Live(new) <=> ~InComment(doc)[k]
<1> DEFINE n   == Len(doc)
           in  == InComment(doc)
           out == InComment(new)
<1>0. n \in Nat /\ Len(new) = n + 1  BY DEF Spliced
<1>1. /\ \A i \in 0..k : out[i] <=> in[i]
      /\ \A i \in k..n : out[i + 1] <=> in[i]
  BY SplicedReads
<1>2. /\ new[k + 1] # "open"
      /\ \A i \in 1..k : new[i] = doc[i]
      /\ \A i \in k + 1..n : new[i + 1] = doc[i]
  BY DEF Spliced
<1>3. /\ \A i \in 1..n : i \in Live(doc) <=> ~in[i - 1] /\ doc[i] # "open"
      /\ \A i \in 1..n + 1 : i \in Live(new) <=> ~out[i - 1] /\ new[i] # "open"
  BY <1>0, LiveIs
<1>9. k \in 0..n  OBVIOUS
<1> HIDE DEF n, in, out
<1>4. ASSUME NEW i \in 1..k  PROVE i \in Live(new) <=> i \in Live(doc)
  <2>1. i \in 1..n /\ i \in 1..n + 1 /\ i - 1 \in 0..k  BY <1>0, <1>9
  <2>2. QED  BY <1>1, <1>2, <1>3, <2>1
<1>5. ASSUME NEW i \in k + 1..n  PROVE i + 1 \in Live(new) <=> i \in Live(doc)
  <2>1. i \in 1..n /\ i + 1 \in 1..n + 1 /\ i - 1 \in k..n /\ (i + 1) - 1 = (i - 1) + 1  BY <1>0, <1>9
  <2>2. out[(i + 1) - 1] <=> in[i - 1]  BY <1>1, <2>1
  <2>3. QED  BY <1>2, <1>3, <2>1, <2>2
<1>6. k + 1 \in Live(new) <=> ~in[k]
  <2>1. k + 1 \in 1..n + 1 /\ k \in 0..k /\ (k + 1) - 1 = k  BY <1>0, <1>9
  <2>2. QED  BY <1>1, <1>2, <1>3, <2>1
<1>7. QED  BY <1>4, <1>5, <1>6 DEF n, in

LEMMA SplicedMarks ==
  ASSUME NEW S, NEW doc \in Seq(S), NEW new \in Seq(S), NEW asset, asset \notin {"open", "close"},
         NEW k \in 0..Len(doc), Spliced(new, doc, k, asset)
  PROVE  /\ \A mark : mark # asset => (mark \in LiveMarks(new) <=> mark \in LiveMarks(doc))
         /\ ~InComment(doc)[k] => asset \in LiveMarks(new)
<1>0. Len(doc) \in Nat /\ Len(new) = Len(doc) + 1  BY DEF Spliced
<1>1. /\ \A i \in 1..k : i \in Live(new) <=> i \in Live(doc)
      /\ \A i \in k + 1..Len(doc) : i + 1 \in Live(new) <=> i \in Live(doc)
      /\ k + 1 \in Live(new) <=> ~InComment(doc)[k]
  BY SplicedLive
<1>2. /\ new[k + 1] = asset
      /\ \A i \in 1..k : new[i] = doc[i]
      /\ \A i \in k + 1..Len(doc) : new[i + 1] = doc[i]
  BY DEF Spliced
<1>3. ASSUME NEW mark, mark # asset, mark \in LiveMarks(new)  PROVE mark \in LiveMarks(doc)
  <2>1. PICK i \in 1..Len(doc) + 1 : i \in Live(new) /\ new[i] = mark  BY <1>0, <1>3, LiveIs
  <2>2. CASE i \in 1..k
    <3>1. i \in 1..Len(doc)  BY <1>0, <2>2
    <3>2. i \in Live(doc) /\ doc[i] = mark  BY <1>1, <1>2, <2>1, <2>2
    <3>3. QED  BY <3>1, <3>2, LiveIs
  <2>3. CASE i = k + 1  BY <1>2, <1>3, <2>1, <2>3
  <2>4. CASE i > k + 1
    <3>1. i - 1 \in k + 1..Len(doc) /\ (i - 1) + 1 = i /\ i - 1 \in 1..Len(doc)  BY <1>0, <2>4
    <3>2. i - 1 \in Live(doc) /\ doc[i - 1] = mark  BY <1>1, <1>2, <2>1, <3>1
    <3>3. QED  BY <3>1, <3>2, LiveIs
  <2>5. QED  BY <1>0, <2>2, <2>3, <2>4
<1>4. ASSUME NEW mark, mark \in LiveMarks(doc)  PROVE mark \in LiveMarks(new)
  <2>1. PICK i \in 1..Len(doc) : i \in Live(doc) /\ doc[i] = mark  BY <1>4, LiveIs
  <2>2. CASE i <= k
    <3>1. i \in 1..k /\ i \in 1..Len(new)  BY <1>0, <2>2
    <3>2. i \in Live(new) /\ new[i] = mark  BY <1>1, <1>2, <2>1, <3>1
    <3>3. QED  BY <3>1, <3>2, LiveIs
  <2>3. CASE ~(i <= k)
    <3>1. i \in k + 1..Len(doc) /\ i + 1 \in 1..Len(new)  BY <1>0, <2>3
    <3>2. i + 1 \in Live(new) /\ new[i + 1] = mark  BY <1>1, <1>2, <2>1, <3>1
    <3>3. QED  BY <3>1, <3>2, LiveIs
  <2>4. QED  BY <2>2, <2>3
<1>5. ASSUME ~InComment(doc)[k]  PROVE asset \in LiveMarks(new)
  <2>1. k + 1 \in 1..Len(new) /\ k + 1 \in Live(new) /\ new[k + 1] = asset  BY <1>0, <1>1, <1>2, <1>5
  <2>2. QED  BY <2>1, LiveIs
<1>6. QED  BY <1>3, <1>4, <1>5

\* Marks that only become others outside comments move nothing either.
LEMMA SameComments ==
  ASSUME NEW S, NEW doc \in Seq(S), NEW new \in Seq(S), Len(new) = Len(doc),
         \A i \in 1..Len(doc) : /\ new[i] = "open" <=> doc[i] = "open"
                                /\ new[i] = "close" <=> doc[i] = "close"
  PROVE  /\ \A i \in 0..Len(doc) : InComment(new)[i] <=> InComment(doc)[i]
         /\ \A i \in 1..Len(doc) : i \in Live(new) <=> i \in Live(doc)
<1> DEFINE n   == Len(doc)
           in  == InComment(doc)
           out == InComment(new)
           P   == {i \in 0..n : out[i] <=> in[i]}
<1>0. n \in Nat  OBVIOUS
<1>1. /\ ~in[0] /\ ~out[0]
      /\ \A i \in 1..n : in[i] <=> IF in[i - 1] THEN doc[i] # "close" ELSE doc[i] = "open"
      /\ \A i \in 1..n : out[i] <=> IF out[i - 1] THEN new[i] # "close" ELSE new[i] = "open"
  BY ReadingIs
<1>2. /\ \A i \in 1..n : i \in Live(doc) <=> ~in[i - 1] /\ doc[i] # "open"
      /\ \A i \in 1..n : i \in Live(new) <=> ~out[i - 1] /\ new[i] # "open"
  BY LiveIs
<1> HIDE DEF in, out
<1>3. 0 \in P  BY <1>0, <1>1
<1>4. ASSUME NEW i \in 0..n - 1, i \in P  PROVE i + 1 \in P
  <2>1. i + 1 \in 1..n /\ i + 1 \in 0..n /\ (i + 1) - 1 = i  BY <1>0
  <2>2. out[i + 1] <=> in[i + 1]  BY <1>1, <1>4, <2>1
  <2>3. QED  BY <2>1, <2>2
<1>5. \A i \in 0..n : i \in P
  <2> HIDE DEF P
  <2> QED  BY <1>0, <1>3, <1>4, UpTo
<1>6. \A i \in 1..n : i - 1 \in 0..n  BY <1>0
<1>7. \A i \in 1..n : i \in Live(new) <=> i \in Live(doc)  BY <1>2, <1>5, <1>6
<1>8. QED  BY <1>5, <1>7 DEF in, out

LEMMA RewrittenIs ==
  ASSUME NEW S, NEW doc \in Seq(S), "+lib" \in S
  PROVE  LET new == RewriteLibraries(doc) IN
         /\ new \in Seq(S) /\ Len(new) = Len(doc)
         /\ \A i \in 1..Len(doc) : new[i] = IF doc[i] = "lib" /\ i \in Live(doc) THEN "+lib" ELSE doc[i]
         /\ \A i \in 0..Len(doc) : InComment(new)[i] <=> InComment(doc)[i]
         /\ \A i \in 1..Len(doc) : i \in Live(new) <=> i \in Live(doc)
<1> DEFINE new == RewriteLibraries(doc)
<1>0. DOMAIN doc = 1..Len(doc) /\ Len(doc) \in Nat /\ \A i \in 1..Len(doc) : doc[i] \in S  OBVIOUS
<1>1. new = [i \in 1..Len(doc) |-> IF doc[i] = "lib" /\ i \notin CommentSpans(doc) THEN "+lib" ELSE doc[i]]
  BY <1>0 DEF RewriteLibraries
<1>2. new \in Seq(S) /\ Len(new) = Len(doc)
  <2>1. new \in [1..Len(doc) -> S]  BY <1>0, <1>1
  <2> HIDE DEF new
  <2>2. QED  BY <1>0, <2>1
<1>3. ASSUME NEW i \in 1..Len(doc)
      PROVE  new[i] = IF doc[i] = "lib" /\ i \in Live(doc) THEN "+lib" ELSE doc[i]
  <2>1. i \in Live(doc) <=> i \notin CommentSpans(doc)  BY <1>0, SpansAreHidden
  <2>2. new[i] = IF doc[i] = "lib" /\ i \notin CommentSpans(doc) THEN "+lib" ELSE doc[i]  BY <1>1
  <2>3. QED  BY <2>1, <2>2
<1> HIDE DEF new
<1>4. \A i \in 1..Len(doc) : /\ new[i] = "open" <=> doc[i] = "open"
                             /\ new[i] = "close" <=> doc[i] = "close"
  BY <1>3
<1>5. /\ \A i \in 0..Len(doc) : InComment(new)[i] <=> InComment(doc)[i]
      /\ \A i \in 1..Len(doc) : i \in Live(new) <=> i \in Live(doc)
  BY <1>2, <1>4, SameComments
<1>6. QED  BY <1>2, <1>3, <1>5 DEF new

LEMMA RewrittenMarks ==
  ASSUME NEW S, NEW doc \in Seq(S), "+lib" \in S
  PROVE  \A mark : mark \notin {"lib", "+lib"} =>
           (mark \in LiveMarks(RewriteLibraries(doc)) <=> mark \in LiveMarks(doc))
<1> DEFINE new == RewriteLibraries(doc)
<1>1. /\ new \in Seq(S) /\ Len(new) = Len(doc)
      /\ \A i \in 1..Len(doc) : new[i] = IF doc[i] = "lib" /\ i \in Live(doc) THEN "+lib" ELSE doc[i]
      /\ \A i \in 1..Len(doc) : i \in Live(new) <=> i \in Live(doc)
  BY RewrittenIs
<1> HIDE DEF new
<1>2. SUFFICES ASSUME NEW mark, mark \notin {"lib", "+lib"}
               PROVE  mark \in LiveMarks(new) <=> mark \in LiveMarks(doc)
  BY DEF new
<1>3. /\ mark \in LiveMarks(doc) <=> \E i \in 1..Len(doc) : i \in Live(doc) /\ doc[i] = mark
      /\ mark \in LiveMarks(new) <=> \E i \in 1..Len(doc) : i \in Live(new) /\ new[i] = mark
  BY <1>1, LiveIs
<1>4. QED  BY <1>1, <1>2, <1>3

-----------------------------------------------------------------------------
(* What a rewriting leaves as it was: the marks a browser reads, whether a   *)
(* place can be spliced, and what stands before what, but for some marks.    *)

Kept(new, doc, but) ==
    /\ \A mark : mark \notin but =>
         /\ mark \in LiveMarks(new) <=> mark \in LiveMarks(doc)
         /\ SpliceLives(new, mark) <=> SpliceLives(doc, mark)
    /\ \A asset, mark : asset \notin but /\ mark \notin but =>
         (Precedes(doc, asset, mark) => Precedes(new, asset, mark))

LEMMA KeptAll == ASSUME NEW doc, NEW but PROVE Kept(doc, doc, but)
  BY DEF Kept

LEMMA KeptOn ==
  ASSUME NEW a, NEW b, NEW c, NEW but, NEW also, Kept(b, a, but), Kept(c, b, also)
  PROVE  Kept(c, a, but \cup also)
  BY DEF Kept

LEMMA SplicedPlaces ==
  ASSUME NEW S, NEW doc \in Seq(S), NEW new \in Seq(S), NEW asset, asset \notin {"open", "close"},
         NEW k \in 0..Len(doc), Spliced(new, doc, k, asset), NEW mark, mark # asset
  PROVE  SpliceLives(new, mark) <=> SpliceLives(doc, mark)
<1> DEFINE n    == Len(doc)
           was  == Marked(doc, mark, 1)
           is   == Marked(new, mark, 1)
           f    == First(was)
           g    == First(is)
<1>0. n \in Nat /\ Len(new) = n + 1 /\ k \in 0..n  BY DEF Spliced
<1>1. /\ \A i \in 1..k : i \in Live(new) <=> i \in Live(doc)
      /\ \A i \in k + 1..n : i + 1 \in Live(new) <=> i \in Live(doc)
  BY SplicedLive
<1>2. /\ new[k + 1] = asset
      /\ \A i \in 1..k : new[i] = doc[i]
      /\ \A i \in k + 1..n : new[i + 1] = doc[i]
  BY DEF Spliced
<1>3. was \in SUBSET (1..n) /\ is \in SUBSET (1..n + 1)  BY <1>0 DEF Marked
<1>4. \A i \in 1..n : i \in was <=> doc[i] = mark  BY DEF Marked
<1>5. \A i \in 1..n + 1 : i \in is <=> new[i] = mark  BY <1>0 DEF Marked
<1>6. InComment(new)[n + 1] <=> InComment(doc)[n]
  <2>1. n \in k..n  BY <1>0
  <2>2. QED  BY <2>1, SplicedReads
<1> HIDE DEF n, was, is
<1>7. \A i \in 1..n : i \in was <=> IF i <= k THEN i \in is ELSE i + 1 \in is
  <2> TAKE i \in 1..n
  <2>1. CASE i <= k
    <3>1. i \in 1..k /\ i \in 1..n + 1  BY <1>0, <2>1
    <3>2. QED  BY <1>2, <1>4, <1>5, <2>1, <3>1
  <2>2. CASE ~(i <= k)
    <3>1. i \in k + 1..n /\ i + 1 \in 1..n + 1  BY <1>0, <2>2
    <3>2. QED  BY <1>2, <1>4, <1>5, <2>2, <3>1
  <2>3. QED  BY <2>1, <2>2
<1>8. k + 1 \notin is
  <2>1. k + 1 \in 1..n + 1  BY <1>0
  <2>2. QED  BY <1>2, <1>5, <2>1
<1>9. ASSUME NEW j \in is
      PROVE  \E i \in was : j = IF i <= k THEN i ELSE i + 1
  <2>1. j \in 1..n + 1 /\ j # k + 1  BY <1>3, <1>8, <1>9
  <2>2. CASE j <= k
    <3>1. j \in 1..n  BY <1>0, <2>1, <2>2
    <3>2. QED  BY <1>7, <1>9, <2>2, <3>1
  <2>3. CASE ~(j <= k)
    <3>1. j - 1 \in 1..n /\ ~(j - 1 <= k) /\ (j - 1) + 1 = j  BY <1>0, <2>1, <2>3
    <3>2. QED  BY <1>7, <1>9, <3>1
  <2>4. QED  BY <2>2, <2>3
<1>10. CASE was = {}
  <2>1. is = {}  BY <1>9, <1>10
  <2>2. QED  BY <1>0, <1>6, <1>10, <2>1 DEF SpliceLives, n, was, is
<1>11. CASE was # {}
  <2>1. f \in was /\ \A i \in was : f <= i  BY <1>0, <1>3, <1>11, FirstIs
  <2>2. f \in 1..n  BY <1>3, <2>1
  <2> DEFINE to == IF f <= k THEN f ELSE f + 1
  <2>3. to \in is  BY <1>7, <2>1, <2>2
  <2>4. n + 1 \in Nat /\ is # {}  BY <1>0, <2>3
  <2>5. g \in is /\ \A j \in is : g <= j  BY <1>3, <2>4, FirstIs
  <2>6. g \in 1..n + 1  BY <1>3, <2>5
  <2>7. PICK i \in was : g = IF i <= k THEN i ELSE i + 1  BY <1>9, <2>5
  <2>8. i \in 1..n /\ f <= i /\ g <= to  BY <1>3, <2>1, <2>3, <2>5, <2>7
  <2> HIDE DEF f, g
  <2>9. g = to  BY <1>0, <2>2, <2>6, <2>7, <2>8
  <2>10. to \in Live(new) <=> f \in Live(doc)
    <3>1. CASE f <= k
      <4>1. f \in 1..k  BY <2>2, <3>1
      <4>2. QED  BY <1>1, <3>1, <4>1
    <3>2. CASE ~(f <= k)
      <4>1. f \in k + 1..n  BY <1>0, <2>2, <3>2
      <4>2. QED  BY <1>1, <3>2, <4>1
    <3>3. QED  BY <3>1, <3>2
  <2> HIDE DEF to
  <2>11. QED  BY <1>11, <2>4, <2>9, <2>10 DEF SpliceLives, was, is, f, g
<1>12. QED  BY <1>10, <1>11

LEMMA PrecedesIs ==
  ASSUME NEW S, NEW doc \in Seq(S), NEW asset, NEW mark
  PROVE  Precedes(doc, asset, mark) <=>
           \E i \in 1..Len(doc) : /\ doc[i] = asset
                                  /\ \A j \in 1..Len(doc) : j \in Live(doc) /\ doc[j] = mark => i < j
<1>1. DOMAIN doc = 1..Len(doc)  OBVIOUS
<1>2. Live(doc) \subseteq DOMAIN doc  BY DEF Live
<1>3. QED  BY <1>1, <1>2 DEF Precedes

LEMMA SplicedPrecedes ==
  ASSUME NEW S, NEW doc \in Seq(S), NEW new \in Seq(S), NEW asset, asset \notin {"open", "close"},
         NEW k \in 0..Len(doc), Spliced(new, doc, k, asset),
         NEW other, other # asset, NEW mark, mark # asset, Precedes(doc, other, mark)
  PROVE  Precedes(new, other, mark)
<1> DEFINE n    == Len(doc)
           to(i) == IF i <= k THEN i ELSE i + 1
<1>0. n \in Nat /\ Len(new) = n + 1 /\ k \in 0..n  BY DEF Spliced
<1>1. /\ \A i \in 1..k : i \in Live(new) <=> i \in Live(doc)
      /\ \A i \in k + 1..n : i + 1 \in Live(new) <=> i \in Live(doc)
  BY SplicedLive
<1>2. /\ new[k + 1] = asset
      /\ \A i \in 1..k : new[i] = doc[i]
      /\ \A i \in k + 1..n : new[i + 1] = doc[i]
  BY DEF Spliced
<1>3. PICK i \in 1..n : /\ doc[i] = other
                        /\ \A j \in 1..n : j \in Live(doc) /\ doc[j] = mark => i < j
  BY PrecedesIs
<1> HIDE DEF n
<1>4. to(i) \in 1..n + 1 /\ new[to(i)] = other
  <2>1. CASE i <= k
    <3>1. i \in 1..k /\ i \in 1..n + 1  BY <1>0, <2>1
    <3>2. QED  BY <1>2, <1>3, <2>1, <3>1
  <2>2. CASE ~(i <= k)
    <3>1. i \in k + 1..n /\ i + 1 \in 1..n + 1  BY <1>0, <2>2
    <3>2. QED  BY <1>2, <1>3, <2>2, <3>1
  <2>3. QED  BY <2>1, <2>2
<1>5. ASSUME NEW j \in 1..n + 1, j \in Live(new), new[j] = mark  PROVE to(i) < j
  <2>1. CASE j <= k
    <3>1. j \in 1..k /\ j \in 1..n  BY <1>0, <2>1
    <3>2. i < j  BY <1>1, <1>2, <1>3, <1>5, <3>1
    <3>3. QED  BY <1>0, <2>1, <3>2
  <2>2. CASE j = k + 1  BY <1>2, <1>5, <2>2
  <2>3. CASE j > k + 1
    <3>1. j - 1 \in k + 1..n /\ (j - 1) + 1 = j /\ j - 1 \in 1..n  BY <1>0, <2>3
    <3>2. i < j - 1  BY <1>1, <1>2, <1>3, <1>5, <3>1
    <3>3. QED  BY <1>0, <2>3, <3>2
  <2>4. QED  BY <1>0, <2>1, <2>2, <2>3
<1> HIDE DEF to
<1>6. QED  BY <1>0, <1>4, <1>5, PrecedesIs

LEMMA SplicedKept ==
  ASSUME NEW S, NEW doc \in Seq(S), NEW new \in Seq(S), NEW asset, asset \notin {"open", "close"},
         NEW k \in 0..Len(doc), Spliced(new, doc, k, asset)
  PROVE  Kept(new, doc, {asset})
<1>1. \A mark : mark # asset => (mark \in LiveMarks(new) <=> mark \in LiveMarks(doc))
  BY SplicedMarks
<1>2. \A mark : mark # asset => (SpliceLives(new, mark) <=> SpliceLives(doc, mark))
  BY SplicedPlaces
<1>3. \A other, mark : other # asset /\ mark # asset =>
        (Precedes(doc, other, mark) => Precedes(new, other, mark))
  BY SplicedPrecedes
<1>4. QED  BY <1>1, <1>2, <1>3 DEF Kept

LEMMA RewrittenKept ==
  ASSUME NEW S, NEW doc \in Seq(S), "+lib" \in S
  PROVE  Kept(RewriteLibraries(doc), doc, {"lib", "+lib"})
<1> DEFINE new == RewriteLibraries(doc)
           n   == Len(doc)
<1>0. n \in Nat  OBVIOUS
<1>1. /\ new \in Seq(S) /\ Len(new) = n
      /\ \A i \in 1..n : new[i] = IF doc[i] = "lib" /\ i \in Live(doc) THEN "+lib" ELSE doc[i]
      /\ \A i \in 0..n : InComment(new)[i] <=> InComment(doc)[i]
      /\ \A i \in 1..n : i \in Live(new) <=> i \in Live(doc)
  BY RewrittenIs
<1>2. \A mark : mark \notin {"lib", "+lib"} => (mark \in LiveMarks(new) <=> mark \in LiveMarks(doc))
  BY RewrittenMarks
<1> HIDE DEF new
<1>3. ASSUME NEW mark, mark \notin {"lib", "+lib"}
      PROVE  \A i \in 1..n : new[i] = mark <=> doc[i] = mark
  BY <1>1, <1>3
<1>4. ASSUME NEW mark, mark \notin {"lib", "+lib"}
      PROVE  SpliceLives(new, mark) <=> SpliceLives(doc, mark)
  <2> DEFINE places == Marked(doc, mark, 1)
  <2>1. Marked(new, mark, 1) = places  BY <1>1, <1>3, <1>4 DEF Marked
  <2>2. places \in SUBSET (1..n)  BY DEF Marked
  <2> HIDE DEF places
  <2>3. CASE places = {}
    <3>1. n \in 0..n  BY <1>0
    <3>2. QED  BY <1>1, <2>1, <2>3, <3>1 DEF SpliceLives, places
  <2>4. CASE places # {}
    <3>1. First(places) \in 1..n
      <4>1. First(places) \in places  BY <1>0, <2>2, <2>4, FirstIs
      <4>2. QED  BY <2>2, <4>1
    <3>2. QED  BY <1>1, <2>1, <2>4, <3>1 DEF SpliceLives, places
  <2>5. QED  BY <2>3, <2>4
<1>5. ASSUME NEW asset, asset \notin {"lib", "+lib"}, NEW mark, mark \notin {"lib", "+lib"},
             Precedes(doc, asset, mark)
      PROVE  Precedes(new, asset, mark)
  <2>1. PICK i \in 1..n : /\ doc[i] = asset
                          /\ \A j \in 1..n : j \in Live(doc) /\ doc[j] = mark => i < j
    BY <1>5, PrecedesIs
  <2>2. new[i] = asset  BY <1>3, <1>5, <2>1
  <2>3. \A j \in 1..n : j \in Live(new) /\ new[j] = mark => i < j  BY <1>1, <1>3, <1>5, <2>1
  <2>4. QED  BY <1>1, <2>2, <2>3, PrecedesIs
<1>6. QED  BY <1>2, <1>4, <1>5 DEF Kept, new

\* Where the two splices put an asset, and when a browser reads it there
LEMMA BeforeBodyCloseIs ==
  ASSUME NEW S, NEW doc \in Seq(S), NEW asset \in S
  PROVE  LET new == BeforeBodyClose(doc, asset) IN
         /\ new \in Seq(S)
         /\ \E k \in 0..Len(doc) : /\ Spliced(new, doc, k, asset)
                                   /\ SpliceLives(doc, "body") => ~InComment(doc)[k]
<1> DEFINE closes == Marked(doc, "body", 1)
<1>0. Len(doc) \in Nat /\ closes \in SUBSET (1..Len(doc))  BY DEF Marked
<1>1. CASE closes = {}
  <2>1. BeforeBodyClose(doc, asset) = Append(doc, asset)  BY <1>1 DEF BeforeBodyClose
  <2>2. SpliceLives(doc, "body") => ~InComment(doc)[Len(doc)]  BY <1>1 DEF SpliceLives
  <2>3. Len(doc) \in 0..Len(doc)  BY <1>0
  <2>4. QED  BY <2>1, <2>2, <2>3, SpliceIs
<1>2. CASE closes # {}
  <2> DEFINE k == First(closes) - 1
  <2>1. First(closes) \in 1..Len(doc)
    <3> HIDE DEF closes
    <3>1. First(closes) \in closes  BY <1>0, <1>2, FirstIs
    <3>2. QED  BY <1>0, <3>1
  <2>2. BeforeBodyClose(doc, asset) = Splice(doc, k, asset)  BY <1>2 DEF BeforeBodyClose
  <2>3. SpliceLives(doc, "body") => First(closes) \in Live(doc)  BY <1>2 DEF SpliceLives
  <2>4. SpliceLives(doc, "body") => ~InComment(doc)[k]  BY <2>1, <2>3, LiveIs
  <2>5. k \in 0..Len(doc)  BY <1>0, <2>1
  <2> HIDE DEF k
  <2>6. QED  BY <2>2, <2>4, <2>5, SpliceIs
<1>3. QED  BY <1>1, <1>2

LEMMA AfterHeadOpenIs ==
  ASSUME NEW S, NEW doc \in Seq(S), NEW asset \in S
  PROVE  LET new == AfterHeadOpen(doc, asset) IN
         /\ new \in Seq(S)
         /\ \E k \in 0..Len(doc) :
              /\ Spliced(new, doc, k, asset)
              /\ SpliceLives(doc, "head") => /\ ~InComment(doc)[k]
                                             /\ \A i \in 1..Len(doc) : doc[i] = "head" => k <= i
                                             /\ k = 0 \/ "head" \in LiveMarks(doc)
<1> DEFINE heads == Marked(doc, "head", 1)
<1>0. Len(doc) \in Nat /\ heads \in SUBSET (1..Len(doc))  BY DEF Marked
<1>1. CASE heads = {}
  <2>1. AfterHeadOpen(doc, asset) = <<asset>> \o doc  BY <1>1 DEF AfterHeadOpen
  <2>2. ~InComment(doc)[0] /\ 0 \in 0..Len(doc)  BY <1>0, ReadingIs
  <2>3. \A i \in 1..Len(doc) : 0 <= i  BY <1>0
  <2>4. QED  BY <2>1, <2>2, <2>3, SpliceIs
<1>2. CASE heads # {}
  <2> DEFINE h == First(heads)
  <2>1. h \in 1..Len(doc) /\ doc[h] = "head" /\ \A i \in heads : h <= i
    <3>1. h \in heads /\ \A i \in heads : h <= i
      <4> HIDE DEF heads
      <4> QED  BY <1>0, <1>2, FirstIs
    <3>2. QED  BY <3>1 DEF Marked
  <2>2. \A i \in 1..Len(doc) : doc[i] = "head" => h <= i  BY <2>1 DEF Marked
  <2>3. AfterHeadOpen(doc, asset) = Splice(doc, h, asset)  BY <1>2 DEF AfterHeadOpen
  <2>4. SpliceLives(doc, "head") => h \in Live(doc)  BY <1>2 DEF SpliceLives
  <2> HIDE DEF h, heads
  <2>5. ASSUME h \in Live(doc)  PROVE ~InComment(doc)[h] /\ "head" \in LiveMarks(doc)
    <3>1. ~InComment(doc)[h - 1]  BY <2>1, <2>5, LiveIs
    <3>2. ~InComment(doc)[h]  BY <2>1, <3>1, ReadingIs
    <3>3. QED  BY <2>1, <2>5, <3>2, LiveIs
  <2>6. h \in 0..Len(doc)  BY <1>0, <2>1
  <2>7. QED  BY <2>2, <2>3, <2>4, <2>5, <2>6, SpliceIs
<1>3. QED  BY <1>1, <1>2

LEMMA SeqInto == ASSUME NEW S, NEW T, S \subseteq T, NEW doc \in Seq(S)  PROVE doc \in Seq(T)
<1>1. doc \in [1..Len(doc) -> T] /\ Len(doc) \in Nat  OBVIOUS
<1>2. QED  BY <1>1

LEMMA MarksOf == ASSUME NEW S, NEW doc \in Seq(S)  PROVE LiveMarks(doc) \subseteq S
<1>1. \A i \in Live(doc) : i \in 1..Len(doc)  BY DEF Live
<1>2. \A i \in 1..Len(doc) : doc[i] \in S  OBVIOUS
<1>3. QED  BY <1>1, <1>2 DEF LiveMarks

LEMMA InjectMermaidIs ==
  ASSUME NEW S, NEW doc \in Seq(S), "+mermaid" \in S
  PROVE  LET new == InjectMermaid(doc) IN
         /\ new \in Seq(S) /\ Kept(new, doc, {"+mermaid"})
         /\ new # doc => "mermaid" \in LiveMarks(doc)
         /\ "mermaid" \in LiveMarks(doc) /\ SpliceLives(doc, "body") => "+mermaid" \in LiveMarks(new)
         /\ new # doc => \E k \in 0..Len(doc) : Spliced(new, doc, k, "+mermaid")
<1> DEFINE new == BeforeBodyClose(doc, "+mermaid")
<1>1. new \in Seq(S)  BY BeforeBodyCloseIs
<1>2. PICK k \in 0..Len(doc) : /\ Spliced(new, doc, k, "+mermaid")
                               /\ SpliceLives(doc, "body") => ~InComment(doc)[k]
  BY BeforeBodyCloseIs
<1>3. Mentions(doc, "mermaid") <=> "mermaid" \in LiveMarks(doc)  BY LiveIs
<1>4. InjectMermaid(doc) = IF Mentions(doc, "mermaid") THEN new ELSE doc  BY DEF InjectMermaid
<1> HIDE DEF new
<1>5. Kept(new, doc, {"+mermaid"})  BY <1>1, <1>2, SplicedKept
<1>6. SpliceLives(doc, "body") => "+mermaid" \in LiveMarks(new)  BY <1>1, <1>2, SplicedMarks
<1>7. Kept(doc, doc, {"+mermaid"})  BY KeptAll
<1>8. QED  BY <1>1, <1>2, <1>3, <1>4, <1>5, <1>6, <1>7

LEMMA InjectIconsIs ==
  ASSUME NEW S, NEW doc \in Seq(S), "+icons" \in S
  PROVE  LET new == InjectIcons(doc) IN
         /\ new \in Seq(S) /\ Kept(new, doc, {"+icons"})
         /\ new # doc => "icons" \in LiveMarks(doc)
         /\ "icons" \in LiveMarks(doc) /\ SpliceLives(doc, "body") => "+icons" \in LiveMarks(new)
         /\ new # doc => \E k \in 0..Len(doc) : Spliced(new, doc, k, "+icons")
<1> DEFINE new == BeforeBodyClose(doc, "+icons")
<1>1. new \in Seq(S)  BY BeforeBodyCloseIs
<1>2. PICK k \in 0..Len(doc) : /\ Spliced(new, doc, k, "+icons")
                               /\ SpliceLives(doc, "body") => ~InComment(doc)[k]
  BY BeforeBodyCloseIs
<1>3. Mentions(doc, "icons") <=> "icons" \in LiveMarks(doc)  BY LiveIs
<1>4. InjectIcons(doc) = IF Mentions(doc, "icons") THEN new ELSE doc  BY DEF InjectIcons
<1> HIDE DEF new
<1>5. Kept(new, doc, {"+icons"})  BY <1>1, <1>2, SplicedKept
<1>6. SpliceLives(doc, "body") => "+icons" \in LiveMarks(new)  BY <1>1, <1>2, SplicedMarks
<1>7. Kept(doc, doc, {"+icons"})  BY KeptAll
<1>8. QED  BY <1>1, <1>2, <1>3, <1>4, <1>5, <1>6, <1>7

LEMMA InjectGeoIs ==
  ASSUME NEW S, NEW doc \in Seq(S), "+geo" \in S
  PROVE  LET new == InjectGeo(doc) IN
         /\ new \in Seq(S) /\ Kept(new, doc, {"+geo"})
         /\ new # doc => "geo" \in LiveMarks(doc)
         /\ "geo" \in LiveMarks(doc) /\ SpliceLives(doc, "head") =>
              /\ "+geo" \in LiveMarks(new)
              /\ Precedes(doc, "head", "geo") \/ "head" \notin LiveMarks(doc)
                   => Precedes(new, "+geo", "geo")
         /\ new # doc => \E k \in 0..Len(doc) : Spliced(new, doc, k, "+geo")
<1> DEFINE new == AfterHeadOpen(doc, "+geo")
           n   == Len(doc)
<1>1. new \in Seq(S)  BY AfterHeadOpenIs
<1>2. PICK k \in 0..n : /\ Spliced(new, doc, k, "+geo")
                        /\ SpliceLives(doc, "head") => /\ ~InComment(doc)[k]
                                                       /\ \A i \in 1..n : doc[i] = "head" => k <= i
                                                       /\ k = 0 \/ "head" \in LiveMarks(doc)
  BY AfterHeadOpenIs
<1>3. Mentions(doc, "geo") <=> "geo" \in LiveMarks(doc)  BY LiveIs
<1>4. InjectGeo(doc) = IF Mentions(doc, "geo") THEN new ELSE doc  BY DEF InjectGeo
<1> HIDE DEF new
<1>5. Kept(new, doc, {"+geo"})  BY <1>1, <1>2, SplicedKept
<1>6. SpliceLives(doc, "head") => "+geo" \in LiveMarks(new)  BY <1>1, <1>2, SplicedMarks
<1>7. Kept(doc, doc, {"+geo"})  BY KeptAll
<1>8. ASSUME SpliceLives(doc, "head"),
             Precedes(doc, "head", "geo") \/ "head" \notin LiveMarks(doc)
      PROVE  Precedes(new, "+geo", "geo")
  <2>0. n \in Nat /\ Len(new) = n + 1 /\ new[k + 1] = "+geo" /\ k + 1 \in 1..n + 1
    BY <1>2 DEF Spliced
  <2>1. ASSUME NEW j \in 1..n, j \in Live(doc), doc[j] = "geo"  PROVE k < j
    <3>1. CASE k = 0  BY <3>1
    <3>2. CASE k # 0
      <4>1. Precedes(doc, "head", "geo")  BY <1>2, <1>8, <3>2
      <4>2. PICK i \in 1..n : /\ doc[i] = "head"
                              /\ \A m \in 1..n : m \in Live(doc) /\ doc[m] = "geo" => i < m
        BY <4>1, PrecedesIs
      <4>3. k <= i /\ i < j  BY <1>2, <1>8, <2>1, <4>2
      <4>4. QED  BY <2>0, <4>3
    <3>3. QED  BY <3>1, <3>2
  <2>2. /\ \A i \in 1..k : new[i] = doc[i] /\ (i \in Live(new) <=> i \in Live(doc))
        /\ \A i \in k + 1..n : new[i + 1] = doc[i] /\ (i + 1 \in Live(new) <=> i \in Live(doc))
    BY <1>1, <1>2, SplicedLive DEF Spliced
  <2>3. ASSUME NEW j \in 1..n + 1, j \in Live(new), new[j] = "geo"  PROVE k + 1 < j
    <3>1. CASE j <= k
      <4>1. j \in 1..k /\ j \in 1..n  BY <2>0, <3>1
      <4>2. k < j  BY <2>1, <2>2, <2>3, <4>1
      <4>3. QED  BY <2>0, <3>1, <4>2
    <3>2. CASE j = k + 1  BY <2>0, <2>3, <3>2
    <3>3. CASE j > k + 1  BY <3>3
    <3>4. QED  BY <2>0, <3>1, <3>2, <3>3
  <2>4. QED  BY <1>1, <2>0, <2>3, PrecedesIs
<1>9. QED  BY <1>1, <1>2, <1>3, <1>4, <1>5, <1>6, <1>7, <1>8

LEMMA RewriteIs ==
  ASSUME NEW S, NEW doc \in Seq(S), "+lib" \in S
  PROVE  LET new == RewriteLibraries(doc) IN
         /\ new \in Seq(S) /\ Kept(new, doc, {"lib", "+lib"})
         /\ new # doc => "lib" \in LiveMarks(doc)
<1> DEFINE new == RewriteLibraries(doc)
<1>1. /\ new \in Seq(S) /\ Len(new) = Len(doc)
      /\ \A i \in 1..Len(doc) : new[i] = IF doc[i] = "lib" /\ i \in Live(doc) THEN "+lib" ELSE doc[i]
  BY RewrittenIs
<1>2. Kept(new, doc, {"lib", "+lib"})  BY RewrittenKept
<1> HIDE DEF new
<1>3. ASSUME "lib" \notin LiveMarks(doc)  PROVE new = doc
  <2>1. \A i \in 1..Len(doc) : ~(doc[i] = "lib" /\ i \in Live(doc))  BY <1>3, LiveIs
  <2>2. \A i \in 1..Len(doc) : new[i] = doc[i]  BY <1>1, <2>1
  <2>3. QED  BY <1>1, <2>2
<1>4. QED  BY <1>1, <1>2, <1>3 DEF new

-----------------------------------------------------------------------------
(* Policies *)

LEMMA SourceIs ==
  ASSUME NEW a \in Artifacts
  PROVE  /\ a.format \in {"html", "react", "markdown", "csv", "code", "missing"}
         /\ a.format = "html" => a.source \in Seq(Marks)
         /\ a.format = "react" => a.source \subseteq Imports
         /\ a.format = "markdown" => a.source \subseteq RenderFlags
         /\ a.format = "csv" => a.source \in Nat
         /\ a.format = "code" => a.source \in {"known", "unknown"}
<1>1. ASSUME NEW d \in Documents  PROVE d \in Seq(Marks)
  <2>1. PICK n \in 0..MaxMarks : d \in [1..n -> Marks]  BY DEF Documents
  <2>2. n \in Nat  BY ViewAssumption
  <2>3. QED  BY <2>1, <2>2
<1>2. 0..MaxRenderedRows + 2 \subseteq Nat  BY ViewAssumption
<1>3. CASE a \in [format : {"html"}, source : Documents]  BY <1>1, <1>3
<1>4. CASE a \in [format : {"react"}, source : SUBSET Imports]  BY <1>4
<1>5. CASE a \in [format : {"markdown"}, source : SUBSET RenderFlags]  BY <1>5
<1>6. CASE a \in [format : {"csv"}, source : 0..MaxRenderedRows + 2]  BY <1>2, <1>6
<1>7. CASE a \in [format : {"code"}, source : {"known", "unknown"}]  BY <1>7
<1>8. CASE a = [format |-> "missing", source |-> <<>>]  BY <1>8
<1>9. QED  BY <1>3, <1>4, <1>5, <1>6, <1>7, <1>8 DEF Artifacts

\* A document says which policy it goes out with, so the middleware leaves it alone.
LEMMA DocumentSecured ==
  ASSUME NEW a, NEW route, NEW body, NEW csp \in SUBSET Directives
  PROVE  Secured(Document(a, route, body, csp)) = Document(a, route, body, csp)
  BY NoReplyAssumption DEF Secured, Document

LEMMA HtmlFits ==
  ASSUME NEW a \in Artifacts, a.format = "html"
  PROVE  LET r == HtmlRaw(a) IN
         /\ \E csp \in SUBSET Directives : r = Document(a, "raw", r.body, csp)
         /\ {"framed by self", "sandbox"} \subseteq r.csp /\ "frames self" \notin r.csp
         /\ Fits(r)
<1> DEFINE source    == a.source
           drawn     == InjectMermaid(source)
           rewritten == RewriteLibraries(drawn)
           mapped    == InjectGeo(rewritten)
           dressed   == InjectIcons(mapped)
           scripts   == drawn # source \/ rewritten # drawn \/ mapped # rewritten
           policy    == IF scripts THEN WithSameOriginScripts(HtmlCsp) ELSE HtmlCsp
           csp       == IF dressed # mapped THEN WithSameOriginStylesAndFonts(policy) ELSE policy
           live      == LiveMarks(source)
           M1        == Marks \cup {"+mermaid"}
           M2        == M1 \cup {"+lib"}
           M3        == M2 \cup {"+geo"}
           M4        == M3 \cup {"+icons"}
<1>1. HtmlRaw(a) = Document(a, "raw", dressed, csp)  BY DEF HtmlRaw
<1>2. source \in Seq(Marks)  BY SourceIs
<1>3. /\ drawn \in Seq(M1) /\ Kept(drawn, source, {"+mermaid"})
      /\ drawn # source => "mermaid" \in live
  <2>1. source \in Seq(M1) /\ "+mermaid" \in M1  BY <1>2, SeqInto
  <2> HIDE DEF source, M1
  <2>2. QED  BY <2>1, InjectMermaidIs
<1>4. /\ rewritten \in Seq(M2) /\ Kept(rewritten, drawn, {"lib", "+lib"})
      /\ rewritten # drawn => "lib" \in LiveMarks(drawn)
  <2>1. drawn \in Seq(M2) /\ "+lib" \in M2
    <3> HIDE DEF drawn, M1
    <3> QED  BY <1>3, SeqInto
  <2> HIDE DEF drawn, M2
  <2>2. QED  BY <2>1, RewriteIs
<1>5. /\ mapped \in Seq(M3) /\ Kept(mapped, rewritten, {"+geo"})
      /\ mapped # rewritten => "geo" \in LiveMarks(rewritten)
  <2>1. rewritten \in Seq(M3) /\ "+geo" \in M3
    <3> HIDE DEF rewritten, M2
    <3> QED  BY <1>4, SeqInto
  <2> HIDE DEF rewritten, M3
  <2>2. QED  BY <2>1, InjectGeoIs
<1> DEFINE T == IF scripts THEN M3 ELSE Marks
<1>6. mapped \in Seq(T)  BY <1>2, <1>5
<1>7. /\ dressed \in Seq(T \cup {"+icons"})
      /\ dressed # mapped => "icons" \in LiveMarks(mapped)
  <2>1. mapped \in Seq(T \cup {"+icons"}) /\ "+icons" \in T \cup {"+icons"}
    <3> HIDE DEF mapped, T
    <3> QED  BY <1>6, SeqInto
  <2> HIDE DEF mapped, T
  <2>2. QED  BY <2>1, InjectIconsIs
<1> HIDE DEF source, drawn, rewritten, mapped, dressed, live
<1>8. dressed = mapped => dressed \in Seq(T)  BY <1>6
<1>9. scripts => live \cap {"lib", "mermaid", "geo"} # {}
  <2>1. CASE drawn # source  BY <1>3, <2>1
  <2>2. CASE drawn = source /\ rewritten # drawn  BY <1>4, <2>2 DEF live
  <2>3. CASE drawn = source /\ rewritten = drawn /\ mapped # rewritten  BY <1>5, <2>3 DEF live
  <2>4. QED  BY <2>1, <2>2, <2>3
<1>10. dressed # mapped => "icons" \in live
  <2>1. "icons" \in LiveMarks(mapped) <=> "icons" \in LiveMarks(rewritten)  BY <1>5 DEF Kept
  <2>2. "icons" \in LiveMarks(rewritten) <=> "icons" \in LiveMarks(drawn)  BY <1>4 DEF Kept
  <2>3. "icons" \in LiveMarks(drawn) <=> "icons" \in live  BY <1>3 DEF Kept, live
  <2>4. QED  BY <1>7, <2>1, <2>2, <2>3
<1>11. LiveMarks(dressed) \subseteq T \cup {"+icons"} /\ (dressed = mapped => LiveMarks(dressed) \subseteq T)
  BY <1>7, <1>8, MarksOf
<1>12. ~scripts => T = Marks  OBVIOUS
<1> HIDE DEF T
<1>13. ~scripts => LiveMarks(dressed) \cap Scripts = {}  BY <1>11, <1>12 DEF Marks, Scripts
<1>14. dressed = mapped => LiveMarks(dressed) \cap Styles = {}
  <2>1. T \subseteq M3  BY DEF T
  <2>2. QED  BY <1>11, <2>1 DEF Marks, Styles
<1>15. /\ "own scripts" \in csp <=> scripts
       /\ "own styles" \in csp <=> dressed # mapped
       /\ dressed # mapped => {"own styles", "own fonts"} \subseteq csp
       /\ {"framed by self", "sandbox"} \subseteq csp /\ "frames self" \notin csp
       /\ csp \in SUBSET Directives
  BY DEF WithSameOriginScripts, WithSameOriginStylesAndFonts, HtmlCsp, Directives, PageCsp
<1> HIDE DEF csp, scripts
<1> DEFINE r == HtmlRaw(a)
<1>16. /\ r.artifact = a /\ r.route = "raw" /\ r.body = dressed /\ r.csp = csp
       /\ r.frameOptions = "SAMEORIGIN"
  BY <1>1 DEF Document
<1>17. r = Document(a, "raw", r.body, csp)  BY <1>1, <1>16
<1> HIDE DEF r
<1>18. Fits(r)
  <2>1. LiveMarks(r.body) \cap Scripts # {} => "own scripts" \in r.csp  BY <1>13, <1>15, <1>16
  <2>2. LiveMarks(r.body) \cap Styles # {} => {"own styles", "own fonts"} \subseteq r.csp
    BY <1>14, <1>15, <1>16
  <2>3. /\ "own scripts" \in r.csp => LiveMarks(r.artifact.source) \cap {"lib", "mermaid", "geo"} # {}
        /\ "own styles" \in r.csp => "icons" \in LiveMarks(r.artifact.source)
    BY <1>9, <1>10, <1>15, <1>16 DEF live, source
  <2>4. "framed by self" \in r.csp /\ r.frameOptions = "SAMEORIGIN" /\ "frames self" \notin r.csp
    BY <1>15, <1>16
  <2>5. QED  BY <2>1, <2>2, <2>3, <2>4 DEF Fits
<1>19. QED  BY <1>15, <1>16, <1>17, <1>18 DEF r

-----------------------------------------------------------------------------
(* Documents put together from parts                                        *)

Has(doc, x)          == \E i \in 1..Len(doc) : doc[i] = x
Ahead(doc, asset, x) == \E i \in 1..Len(doc) : /\ doc[i] = asset
                                               /\ \A j \in 1..Len(doc) : doc[j] = x => i < j

LEMMA ConcatIs ==
  ASSUME NEW S, NEW p \in Seq(S), NEW q \in Seq(S)
  PROVE  /\ p \o q \in Seq(S) /\ Len(p) \in Nat /\ Len(q) \in Nat /\ Len(p \o q) = Len(p) + Len(q)
         /\ \A i \in 1..Len(p) : (p \o q)[i] = p[i]
         /\ \A i \in 1..Len(q) : (p \o q)[Len(p) + i] = q[i]
<1>1. p \o q \in Seq(S) /\ Len(p) \in Nat /\ Len(q) \in Nat /\ Len(p \o q) = Len(p) + Len(q)
  OBVIOUS
<1>2. \A i \in 1..Len(p) + Len(q) : (p \o q)[i] = IF i <= Len(p) THEN p[i] ELSE q[i - Len(p)]
  OBVIOUS
<1>3. \A i \in 1..Len(p) : i \in 1..Len(p) + Len(q) /\ i <= Len(p)  BY <1>1
<1>4. \A i \in 1..Len(q) : /\ Len(p) + i \in 1..Len(p) + Len(q) /\ ~(Len(p) + i <= Len(p))
                           /\ (Len(p) + i) - Len(p) = i
  BY <1>1
<1>5. \A i \in 1..Len(p) : (p \o q)[i] = p[i]  BY <1>2, <1>3
<1>6. \A i \in 1..Len(q) : (p \o q)[Len(p) + i] = q[i]  BY <1>2, <1>4
<1>7. QED  BY <1>1, <1>5, <1>6

LEMMA IfIs ==
  ASSUME NEW S, NEW condition, NEW asset, condition => asset \in S
  PROVE  /\ If(condition, asset) \in Seq(S)
         /\ \A x : Has(If(condition, asset), x) <=> condition /\ x = asset
<1>1. CASE condition
  <2>1. If(condition, asset) = <<asset>>  BY <1>1 DEF If
  <2>2. <<asset>> \in Seq(S) /\ Len(<<asset>>) = 1 /\ <<asset>>[1] = asset  BY <1>1
  <2>3. \A x : Has(<<asset>>, x) <=> x = asset
    <3>1. \A i \in 1..1 : i = 1  OBVIOUS
    <3>2. QED  BY <2>2, <3>1 DEF Has
  <2>4. QED  BY <1>1, <2>1, <2>2, <2>3
<1>2. CASE ~condition
  <2>1. If(condition, asset) = <<>>  BY <1>2 DEF If
  <2>2. <<>> \in Seq(S) /\ \A x : ~Has(<<>>, x)  BY DEF Has
  <2>3. QED  BY <1>2, <2>1, <2>2
<1>3. QED  BY <1>1, <1>2

LEMMA HasConcat ==
  ASSUME NEW S, NEW p \in Seq(S), NEW q \in Seq(S)
  PROVE  \A x : Has(p \o q, x) <=> Has(p, x) \/ Has(q, x)
<1> TAKE x
<1> DEFINE d == p \o q
<1>1. /\ Len(p) \in Nat /\ Len(q) \in Nat /\ Len(d) = Len(p) + Len(q)
      /\ \A i \in 1..Len(p) : d[i] = p[i]
      /\ \A i \in 1..Len(q) : d[Len(p) + i] = q[i]
  BY ConcatIs
<1> HIDE DEF d
<1>2. ASSUME Has(d, x)  PROVE Has(p, x) \/ Has(q, x)
  <2>1. PICK i \in 1..Len(d) : d[i] = x  BY <1>2 DEF Has
  <2>2. CASE i <= Len(p)
    <3>1. i \in 1..Len(p)  BY <1>1, <2>2
    <3>2. QED  BY <1>1, <2>1, <3>1 DEF Has
  <2>3. CASE ~(i <= Len(p))
    <3>1. i - Len(p) \in 1..Len(q) /\ Len(p) + (i - Len(p)) = i  BY <1>1, <2>3
    <3>2. q[i - Len(p)] = x  BY <1>1, <2>1, <3>1
    <3>3. QED  BY <3>1, <3>2 DEF Has
  <2>4. QED  BY <2>2, <2>3
<1>3. ASSUME Has(p, x)  PROVE Has(d, x)
  <2>1. PICK i \in 1..Len(p) : p[i] = x  BY <1>3 DEF Has
  <2>2. i \in 1..Len(d) /\ d[i] = x  BY <1>1, <2>1
  <2>3. QED  BY <2>2 DEF Has
<1>4. ASSUME Has(q, x)  PROVE Has(d, x)
  <2>1. PICK i \in 1..Len(q) : q[i] = x  BY <1>4 DEF Has
  <2>2. Len(p) + i \in 1..Len(d) /\ d[Len(p) + i] = x  BY <1>1, <2>1
  <2>3. QED  BY <2>2 DEF Has
<1>5. QED  BY <1>2, <1>3, <1>4 DEF d

LEMMA AheadHere ==
  ASSUME NEW S, NEW p \in Seq(S), NEW q \in Seq(S), NEW asset, Has(p, asset), NEW x, ~Has(p, x)
  PROVE  Ahead(p \o q, asset, x)
<1> DEFINE d == p \o q
<1>1. /\ Len(p) \in Nat /\ Len(q) \in Nat /\ Len(d) = Len(p) + Len(q)
      /\ \A i \in 1..Len(p) : d[i] = p[i]
  BY ConcatIs
<1> HIDE DEF d
<1>2. PICK i \in 1..Len(p) : p[i] = asset  BY DEF Has
<1>3. i \in 1..Len(d) /\ d[i] = asset  BY <1>1, <1>2
<1>4. ASSUME NEW j \in 1..Len(d), d[j] = x  PROVE i < j
  <2>1. j \notin 1..Len(p)  BY <1>1, <1>4 DEF Has
  <2>2. QED  BY <1>1, <2>1
<1>5. QED  BY <1>3, <1>4 DEF Ahead, d

LEMMA AheadStays ==
  ASSUME NEW S, NEW p \in Seq(S), NEW q \in Seq(S), NEW asset, NEW x, Ahead(p, asset, x)
  PROVE  Ahead(p \o q, asset, x)
<1> DEFINE d == p \o q
<1>1. /\ Len(p) \in Nat /\ Len(q) \in Nat /\ Len(d) = Len(p) + Len(q)
      /\ \A i \in 1..Len(p) : d[i] = p[i]
  BY ConcatIs
<1> HIDE DEF d
<1>2. PICK i \in 1..Len(p) : p[i] = asset /\ \A j \in 1..Len(p) : p[j] = x => i < j  BY DEF Ahead
<1>3. i \in 1..Len(d) /\ d[i] = asset  BY <1>1, <1>2
<1>4. ASSUME NEW j \in 1..Len(d), d[j] = x  PROVE i < j
  <2>1. CASE j \in 1..Len(p)  BY <1>1, <1>2, <1>4, <2>1
  <2>2. CASE j \notin 1..Len(p)  BY <1>1, <2>2
  <2>3. QED  BY <2>1, <2>2
<1>5. QED  BY <1>3, <1>4 DEF Ahead, d

LEMMA AheadPrecedes ==
  ASSUME NEW S, NEW doc \in Seq(S), NEW asset, NEW x, Ahead(doc, asset, x)
  PROVE  Precedes(doc, asset, x)
  BY PrecedesIs DEF Ahead

\* Without comments everything is read.
LEMMA AllRead ==
  ASSUME NEW S, "open" \notin S, NEW doc \in Seq(S)
  PROVE  \A x : x \in LiveMarks(doc) <=> Has(doc, x)
<1> DEFINE n == Len(doc)
<1>1. n \in Nat /\ \A i \in 1..n : doc[i] # "open"  OBVIOUS
<1>2. \A i \in 0..n : ~InComment(doc)[i]
  <2>1. ~InComment(doc)[0] /\ 0 \in 0..n /\ n \in 0..n /\ 0 + 1 = 1  BY <1>1, ReadingIs
  <2>2. QED  BY <1>1, <2>1, StaysOutside
<1>3. \A i \in 1..n : i - 1 \in 0..n  BY <1>1
<1>4. \A i \in 1..n : i \in Live(doc)  BY <1>1, <1>2, <1>3, LiveIs
<1>5. QED  BY <1>4, LiveIs DEF Has

LEMMA OneIs ==
  ASSUME NEW S, NEW x \in S
  PROVE  <<x>> \in Seq(S) /\ \A y : Has(<<x>>, y) <=> y = x
<1>1. <<x>> \in Seq(S) /\ Len(<<x>>) = 1 /\ <<x>>[1] = x  OBVIOUS
<1>2. \A i \in 1..1 : i = 1  OBVIOUS
<1>3. QED  BY <1>1, <1>2 DEF Has

LEMMA ReactIs ==
  ASSUME NEW a \in Artifacts, a.format = "react"
  PROVE  LET r == ReactRaw(a) IN
         /\ \E csp \in SUBSET Directives : r = Document(a, "raw", r.body, csp)
         /\ {"framed by self", "sandbox"} \subseteq r.csp /\ "frames self" \notin r.csp
         /\ Fits(r)
         /\ \A asset \in {<<"lib", "+lib">>, <<"geo", "+geo">>} :
              asset[1] \in a.source => Precedes(r.body, asset[2], "+init")
<1> DEFINE icons == "icons" \in a.source
           lib   == "lib" \in a.source
           geo   == "geo" \in a.source
           S     == (IF icons THEN {"+icons"} ELSE {}) \cup {"source", "+lib", "+geo", "+react", "+init"}
           p1    == If(icons, "+icons")
           p2    == p1 \o <<"source">>
           p3    == p2 \o If(lib, "+lib")
           p4    == p3 \o If(geo, "+geo")
           body  == p4 \o <<"+react", "+init">>
           csp   == IF icons THEN WithSameOriginStylesAndFonts(ReactCsp) ELSE ReactCsp
<1>1. ReactRaw(a) = Document(a, "raw", body, csp)  BY DEF ReactRaw
<1> HIDE DEF icons, lib, geo
<1>2. p1 \in Seq(S) /\ \A x : Has(p1, x) <=> icons /\ x = "+icons"  BY IfIs
<1>3. <<"source">> \in Seq(S) /\ \A x : Has(<<"source">>, x) <=> x = "source"  BY OneIs
<1>4. If(lib, "+lib") \in Seq(S) /\ \A x : Has(If(lib, "+lib"), x) <=> lib /\ x = "+lib"  BY IfIs
<1>5. If(geo, "+geo") \in Seq(S) /\ \A x : Has(If(geo, "+geo"), x) <=> geo /\ x = "+geo"  BY IfIs
<1>6. <<"+react", "+init">> \in Seq(S)  OBVIOUS
<1>7. "open" \notin S /\ S \cap Scripts \subseteq {"+lib", "+geo", "+react", "+init"}
      /\ (~icons => S \cap Styles = {})
  BY DEF Styles, Scripts
<1> HIDE DEF S, p1
<1>8. p2 \in Seq(S) /\ \A x : Has(p2, x) <=> (icons /\ x = "+icons") \/ x = "source"
  BY <1>2, <1>3, ConcatIs, HasConcat
<1> HIDE DEF p2
<1>9. p3 \in Seq(S) /\ \A x : Has(p3, x) <=> (icons /\ x = "+icons") \/ x = "source" \/ (lib /\ x = "+lib")
  BY <1>4, <1>8, ConcatIs, HasConcat
<1> HIDE DEF p3
<1>10. p4 \in Seq(S) /\ \A x : Has(p4, x) <=> \/ icons /\ x = "+icons"
                                              \/ x = "source"
                                              \/ lib /\ x = "+lib"
                                              \/ geo /\ x = "+geo"
  BY <1>5, <1>9, ConcatIs, HasConcat
<1> HIDE DEF p4
<1>11. body \in Seq(S)  BY <1>6, <1>10, ConcatIs
<1>12. LiveMarks(body) \subseteq S
  <2> HIDE DEF body
  <2> QED  BY <1>11, MarksOf
<1>13. ASSUME NEW x, Has(p4, x)  PROVE Precedes(body, x, "+init")
  <2>1. ~Has(p4, "+init")  BY <1>10
  <2>2. Ahead(body, x, "+init")  BY <1>6, <1>10, <1>13, <2>1, AheadHere
  <2> HIDE DEF body
  <2>3. QED  BY <1>11, <2>2, AheadPrecedes
<1>14. /\ {"framed by self", "sandbox", "own scripts"} \subseteq csp /\ "frames self" \notin csp
       /\ icons => {"own styles", "own fonts"} \subseteq csp
       /\ csp \in SUBSET Directives
  BY DEF WithSameOriginStylesAndFonts, ReactCsp, HtmlCsp, Directives, PageCsp
<1> HIDE DEF body, csp
<1> DEFINE r == ReactRaw(a)
<1>15. /\ r.artifact = a /\ r.route = "raw" /\ r.body = body /\ r.csp = csp
       /\ r.frameOptions = "SAMEORIGIN"
  BY <1>1 DEF Document
<1>16. r = Document(a, "raw", r.body, csp)  BY <1>1, <1>15
<1> HIDE DEF r
<1>17. Fits(r)
  <2>1. LiveMarks(r.body) \cap Styles # {} => icons  BY <1>7, <1>12, <1>15
  <2>2. r.artifact.format # "html"  BY <1>15
  <2>3. "frames self" \notin r.csp /\ "framed by self" \in r.csp /\ "own scripts" \in r.csp
    BY <1>14, <1>15
  <2>4. QED  BY <1>14, <1>15, <2>1, <2>2, <2>3 DEF Fits
<1>18. /\ lib => Precedes(r.body, "+lib", "+init")
       /\ geo => Precedes(r.body, "+geo", "+init")
  BY <1>10, <1>13, <1>15
<1>19. \A asset \in {<<"lib", "+lib">>, <<"geo", "+geo">>} :
         asset[1] \in a.source => Precedes(r.body, asset[2], "+init")
  BY <1>18 DEF lib, geo
<1>20. QED  BY <1>14, <1>15, <1>16, <1>17, <1>19 DEF r

LEMMA PageCspIs ==
  \A math \in BOOLEAN :
    /\ PageCsp(math) \in SUBSET Directives
    /\ {"own scripts", "framed by self"} \subseteq PageCsp(math) /\ "frames self" \notin PageCsp(math)
    /\ math => {"own styles", "own fonts"} \subseteq PageCsp(math)
  BY DEF PageCsp, Directives

LEMMA PageFits ==
  ASSUME NEW a, NEW body, NEW math \in BOOLEAN, ~math => LiveMarks(body) \cap Styles = {}
  PROVE  Fits(Document(a, "page", body, PageCsp(math)))
  BY PageCspIs DEF Fits, Document

LEMMA MarkdownIs ==
  ASSUME NEW a \in Artifacts, a.format = "markdown"
  PROVE  LET r == MarkdownPage(a) IN
         /\ \E csp \in SUBSET Directives : r = Document(a, "page", r.body, csp)
         /\ Fits(r)
         /\ "mermaid" \in a.source => /\ "+mermaid" \in LiveMarks(r.body)
                                      /\ Precedes(r.body, "+theme", "+mermaid")
<1> DEFINE math    == "math" \in a.source
           mermaid == "mermaid" \in a.source
           code    == "code" \in a.source
           S    == (IF math THEN {"+katex"} ELSE {}) \cup {"colours", "+theme", "+mermaid", "rendered"}
           p1   == If(code, "colours")
           p2   == p1 \o <<"+theme">>
           p3   == p2 \o If(mermaid, "+mermaid")
           p4   == p3 \o If(math, "+katex")
           body == p4 \o <<"rendered">>
<1>1. MarkdownPage(a) = Document(a, "page", body, PageCsp(math))  BY DEF MarkdownPage
<1>0. math \in BOOLEAN  OBVIOUS
<1> HIDE DEF math, mermaid, code
<1>2. p1 \in Seq(S) /\ \A x : Has(p1, x) <=> code /\ x = "colours"  BY IfIs
<1>3. <<"+theme">> \in Seq(S) /\ \A x : Has(<<"+theme">>, x) <=> x = "+theme"  BY OneIs
<1>4. If(mermaid, "+mermaid") \in Seq(S) /\ \A x : Has(If(mermaid, "+mermaid"), x) <=> mermaid /\ x = "+mermaid"
  BY IfIs
<1>5. If(math, "+katex") \in Seq(S)  BY IfIs
<1>6. <<"rendered">> \in Seq(S)  BY OneIs
<1>7. "open" \notin S /\ (~math => S \cap Styles = {})  BY DEF Styles
<1> HIDE DEF S, p1
<1>8. p2 \in Seq(S) /\ \A x : Has(p2, x) <=> (code /\ x = "colours") \/ x = "+theme"
  BY <1>2, <1>3, ConcatIs, HasConcat
<1> HIDE DEF p2
<1>9. p3 \in Seq(S) /\ (mermaid => Has(p3, "+mermaid")) /\ Ahead(p3, "+theme", "+mermaid")
  <2>1. p3 \in Seq(S) /\ (mermaid => Has(p3, "+mermaid"))  BY <1>4, <1>8, ConcatIs, HasConcat
  <2>2. Has(p2, "+theme") /\ ~Has(p2, "+mermaid")  BY <1>8
  <2>3. Ahead(p3, "+theme", "+mermaid")  BY <1>4, <1>8, <2>2, AheadHere
  <2>4. QED  BY <2>1, <2>3
<1> HIDE DEF p3
<1>10. p4 \in Seq(S) /\ (mermaid => Has(p4, "+mermaid")) /\ Ahead(p4, "+theme", "+mermaid")
  BY <1>5, <1>9, ConcatIs, HasConcat, AheadStays
<1> HIDE DEF p4
<1>11. body \in Seq(S) /\ (mermaid => Has(body, "+mermaid")) /\ Ahead(body, "+theme", "+mermaid")
  BY <1>6, <1>10, ConcatIs, HasConcat, AheadStays
<1> HIDE DEF body
<1>12. LiveMarks(body) \subseteq S /\ (mermaid => "+mermaid" \in LiveMarks(body))
       /\ Precedes(body, "+theme", "+mermaid")
  BY <1>7, <1>11, MarksOf, AllRead, AheadPrecedes
<1>13. Fits(Document(a, "page", body, PageCsp(math)))
  <2>1. ~math => LiveMarks(body) \cap Styles = {}  BY <1>7, <1>12
  <2>2. QED  BY <1>0, <2>1, PageFits
<1>14. MarkdownPage(a).body = body  BY <1>1 DEF Document
<1>15. PageCsp(math) \in SUBSET Directives  BY <1>0, PageCspIs
<1>16. QED  BY <1>1, <1>12, <1>13, <1>14, <1>15 DEF mermaid

LEMMA CodeIs ==
  ASSUME NEW a \in Artifacts, a.format = "code"
  PROVE  LET r == CodePage(a) IN
         /\ \E csp \in SUBSET Directives : r = Document(a, "page", r.body, csp)
         /\ Fits(r)
<1> DEFINE S    == {"colours", "+theme", "highlighted", "plain"}
           p1   == If(a.source = "known", "colours")
           p2   == <<"+theme", IF a.source = "known" THEN "highlighted" ELSE "plain">>
           body == p1 \o p2
<1>1. CodePage(a) = Document(a, "page", body, PageCsp(FALSE))  BY DEF CodePage, Highlighted
<1>2. p1 \in Seq(S)  BY IfIs
<1>3. p2 \in Seq(S)  OBVIOUS
<1>4. S \cap Styles = {}  BY DEF Styles
<1> HIDE DEF p1, p2, S
<1>5. body \in Seq(S)  BY <1>2, <1>3, ConcatIs
<1> HIDE DEF body
<1>6. LiveMarks(body) \cap Styles = {}  BY <1>4, <1>5, MarksOf
<1>7. Fits(Document(a, "page", body, PageCsp(FALSE)))  BY <1>6, PageFits
<1>8. CodePage(a).body = body  BY <1>1 DEF Document
<1>9. PageCsp(FALSE) \in SUBSET Directives  BY PageCspIs
<1>10. QED  BY <1>1, <1>7, <1>8, <1>9

CsvMarks       == {"+theme", "+csv", "empty", "header", "row", "truncated"}
RowMarks(doc)  == {i \in DOMAIN doc : doc[i] \in {"header", "row"}}
Around(table)  == <<"+theme">> \o table \o <<"+csv">>
Begins(doc, n) == /\ n \in Nat /\ n <= Len(doc)
                  /\ \A i \in 1..n : doc[i] \in {"header", "row"}
                  /\ \A i \in n + 1..Len(doc) : doc[i] \notin {"header", "row"}

LEMMA AroundIs ==
  ASSUME NEW table \in Seq(CsvMarks), NEW n, Begins(table, n)
  PROVE  /\ Around(table) \in Seq(CsvMarks)
         /\ Has(Around(table), "truncated") <=> Has(table, "truncated")
         /\ Cardinality(RowMarks(Around(table))) = n
<1> DEFINE first == <<"+theme">>
           last  == <<"+csv">>
           p     == first \o table
           body  == p \o last
<1>1. /\ first \in Seq(CsvMarks) /\ Len(first) = 1 /\ first[1] = "+theme"
      /\ \A x : Has(first, x) <=> x = "+theme"
      /\ last \in Seq(CsvMarks) /\ Len(last) = 1 /\ last[1] = "+csv"
      /\ \A x : Has(last, x) <=> x = "+csv"
  <2>1. "+theme" \in CsvMarks /\ "+csv" \in CsvMarks  BY DEF CsvMarks
  <2>2. QED  BY <2>1, OneIs
<1>2. Around(table) = body  BY DEF Around
<1>3. /\ n \in Nat /\ n <= Len(table)
      /\ \A i \in 1..n : table[i] \in {"header", "row"}
      /\ \A i \in n + 1..Len(table) : table[i] \notin {"header", "row"}
  BY DEF Begins
<1> HIDE DEF first, last
<1>4. /\ p \in Seq(CsvMarks) /\ Len(p) = 1 + Len(table) /\ Len(table) \in Nat
      /\ \A i \in 1..1 : p[i] = first[i]
      /\ \A i \in 1..Len(table) : p[1 + i] = table[i]
      /\ Has(p, "truncated") <=> Has(table, "truncated")
  <2>1. /\ p \in Seq(CsvMarks) /\ Len(p) = Len(first) + Len(table) /\ Len(table) \in Nat
        /\ \A i \in 1..Len(first) : p[i] = first[i]
        /\ \A i \in 1..Len(table) : p[Len(first) + i] = table[i]
    <3>1. first \in Seq(CsvMarks)  BY <1>1
    <3>2. QED  BY <3>1, ConcatIs
  <2>2. Has(p, "truncated") <=> Has(first, "truncated") \/ Has(table, "truncated")
    BY <1>1, HasConcat
  <2>3. QED  BY <1>1, <2>1, <2>2
<1>5. p[1] = "+theme"  BY <1>1, <1>4
<1> HIDE DEF p
<1>6. /\ body \in Seq(CsvMarks) /\ Len(body) = Len(p) + 1
      /\ \A i \in 1..Len(p) : body[i] = p[i]
      /\ \A i \in 1..1 : body[Len(p) + i] = last[i]
      /\ Has(body, "truncated") <=> Has(p, "truncated")
  <2>1. /\ body \in Seq(CsvMarks) /\ Len(body) = Len(p) + Len(last)
        /\ \A i \in 1..Len(p) : body[i] = p[i]
        /\ \A i \in 1..Len(last) : body[Len(p) + i] = last[i]
    <3>1. last \in Seq(CsvMarks) /\ p \in Seq(CsvMarks)  BY <1>1, <1>4
    <3>2. QED  BY <3>1, ConcatIs
  <2>2. Has(body, "truncated") <=> Has(p, "truncated") \/ Has(last, "truncated")
    BY <1>1, <1>4, HasConcat
  <2>3. QED  BY <1>1, <2>1, <2>2
<1>7. body[Len(p) + 1] = "+csv"  BY <1>1, <1>6
<1> HIDE DEF body
<1>8. DOMAIN body = 1..Len(table) + 2  BY <1>4, <1>6
<1>9. ASSUME NEW i \in 1..Len(table) + 2  PROVE body[i] \in {"header", "row"} <=> i \in 2..n + 1
  <2>1. CASE i = 1
    <3>1. body[i] = "+theme"  BY <1>4, <1>5, <1>6, <2>1
    <3>2. i \notin 2..n + 1  BY <1>3, <2>1
    <3>3. QED  BY <3>1, <3>2
  <2>2. CASE i = Len(table) + 2
    <3>1. body[i] = "+csv"  BY <1>4, <1>7, <2>2
    <3>2. i \notin 2..n + 1  BY <1>3, <1>4, <2>2
    <3>3. QED  BY <3>1, <3>2
  <2>3. CASE i \in 2..Len(table) + 1
    <3>1. i - 1 \in 1..Len(table) /\ i \in 1..Len(p) /\ 1 + (i - 1) = i  BY <1>4, <2>3
    <3>2. body[i] = table[i - 1]  BY <1>4, <1>6, <3>1
    <3>3. CASE i - 1 <= n
      <4>1. i - 1 \in 1..n /\ i \in 2..n + 1  BY <1>3, <3>1, <3>3
      <4>2. QED  BY <1>3, <3>2, <4>1
    <3>4. CASE ~(i - 1 <= n)
      <4>1. i - 1 \in n + 1..Len(table) /\ i \notin 2..n + 1  BY <1>3, <1>4, <3>1, <3>4
      <4>2. QED  BY <1>3, <3>2, <4>1
    <3>5. QED  BY <3>3, <3>4
  <2>4. QED  BY <1>4, <2>1, <2>2, <2>3
<1>10. RowMarks(body) = 2..n + 1
  <2>1. 2..n + 1 \subseteq 1..Len(table) + 2  BY <1>3, <1>4
  <2>2. QED  BY <1>8, <1>9, <2>1 DEF RowMarks
<1>11. Cardinality(2..n + 1) = n
  <2>1. 2 \in Int /\ n + 1 \in Int  BY <1>3
  <2>2. Cardinality(2..n + 1) = IF 2 > n + 1 THEN 0 ELSE (n + 1) - 2 + 1  BY <2>1, FS_Interval
  <2>3. QED  BY <1>3, <2>2
<1>12. QED  BY <1>2, <1>4, <1>6, <1>10, <1>11

LEMMA TableIs ==
  ASSUME NEW rows \in Nat
  PROVE  /\ RenderCsvTable(rows) \in Seq(CsvMarks)
         /\ \E n : /\ Begins(RenderCsvTable(rows), n)
                   /\ Has(RenderCsvTable(rows), "truncated") <=> rows > n
<1>1. CASE rows = 0
  <2> DEFINE table == <<"empty">>
  <2>1. RenderCsvTable(rows) = table  BY <1>1 DEF RenderCsvTable
  <2>2. table \in Seq(CsvMarks) /\ Len(table) = 1 /\ table[1] = "empty" /\ ~Has(table, "truncated")
    <3>1. "empty" \in CsvMarks  BY DEF CsvMarks
    <3>2. QED  BY <3>1, OneIs
  <2> HIDE DEF table
  <2>3. Begins(table, 0)  BY <2>2 DEF Begins
  <2>4. QED  BY <1>1, <2>1, <2>2, <2>3
<1>2. CASE rows # 0
  <2> DEFINE m     == IF rows - 1 < MaxRenderedRows THEN rows - 1 ELSE MaxRenderedRows
             shown == [i \in 1..m |-> "row"]
             head  == <<"header">>
             all   == head \o shown
             cut   == rows - 1 > MaxRenderedRows
             rest  == If(cut, "truncated")
             table == all \o rest
  <2>1. m \in Nat /\ (cut <=> rows > m + 1)  BY <1>2, ViewAssumption
  <2>2. RenderCsvTable(rows) = table  BY <1>2 DEF RenderCsvTable
  <2>3. "row" \in CsvMarks /\ "header" \in CsvMarks /\ "truncated" \in CsvMarks  BY DEF CsvMarks
  <2> HIDE DEF m, cut
  <2>4. /\ shown \in Seq(CsvMarks) /\ Len(shown) = m /\ \A i \in 1..m : shown[i] = "row"
        /\ ~Has(shown, "truncated")
    <3>1. shown \in [1..m -> CsvMarks] /\ DOMAIN shown = 1..m /\ \A i \in 1..m : shown[i] = "row"
      BY <2>3
    <3> HIDE DEF shown
    <3>2. shown \in Seq(CsvMarks) /\ Len(shown) = m  BY <2>1, <3>1
    <3>3. QED  BY <3>1, <3>2 DEF Has
  <2>5. /\ head \in Seq(CsvMarks) /\ Len(head) = 1 /\ head[1] = "header"
        /\ \A x : Has(head, x) <=> x = "header"
    BY <2>3, OneIs
  <2>6. rest \in Seq(CsvMarks) /\ (Has(rest, "truncated") <=> cut)  BY <2>3, IfIs
  <2>7. \/ Len(rest) = 1 /\ rest[1] = "truncated"
        \/ Len(rest) = 0
    BY DEF If
  <2> HIDE DEF shown, head, rest
  <2>8. /\ all \in Seq(CsvMarks) /\ Len(all) = 1 + m
        /\ all[1] = "header" /\ \A i \in 1..m : all[1 + i] = "row"
        /\ ~Has(all, "truncated")
    <3>1. /\ all \in Seq(CsvMarks) /\ Len(all) = Len(head) + Len(shown)
          /\ \A i \in 1..Len(head) : all[i] = head[i]
          /\ \A i \in 1..Len(shown) : all[Len(head) + i] = shown[i]
      <4>1. head \in Seq(CsvMarks) /\ shown \in Seq(CsvMarks)  BY <2>4, <2>5
      <4>2. QED  BY <4>1, ConcatIs
    <3>2. Has(all, "truncated") <=> Has(head, "truncated") \/ Has(shown, "truncated")
      BY <2>4, <2>5, HasConcat
    <3>3. QED  BY <2>1, <2>4, <2>5, <3>1, <3>2
  <2> HIDE DEF all
  <2>9. ASSUME NEW i \in 1..m + 1  PROVE all[i] \in {"header", "row"}
    <3>1. CASE i = 1  BY <2>8, <3>1
    <3>2. CASE i # 1
      <4>1. i - 1 \in 1..m /\ 1 + (i - 1) = i  BY <2>1, <3>2
      <4>2. QED  BY <2>8, <4>1
    <3>3. QED  BY <3>1, <3>2
  <2>10. /\ table \in Seq(CsvMarks) /\ Len(table) = (m + 1) + Len(rest) /\ Len(rest) \in Nat
         /\ \A i \in 1..m + 1 : table[i] = all[i]
         /\ \A i \in 1..Len(rest) : table[(m + 1) + i] = rest[i]
         /\ Has(table, "truncated") <=> cut
    <3>1. /\ table \in Seq(CsvMarks) /\ Len(table) = Len(all) + Len(rest) /\ Len(rest) \in Nat
          /\ \A i \in 1..Len(all) : table[i] = all[i]
          /\ \A i \in 1..Len(rest) : table[Len(all) + i] = rest[i]
      <4>1. all \in Seq(CsvMarks) /\ rest \in Seq(CsvMarks)  BY <2>6, <2>8
      <4>2. QED  BY <4>1, ConcatIs
    <3>2. Has(table, "truncated") <=> Has(all, "truncated") \/ Has(rest, "truncated")
      BY <2>6, <2>8, HasConcat
    <3>3. Len(all) = m + 1  BY <2>1, <2>8
    <3>4. QED  BY <2>6, <2>8, <3>1, <3>2, <3>3
  <2> HIDE DEF table
  <2>11. ASSUME NEW i \in (m + 1) + 1..Len(table)  PROVE table[i] \notin {"header", "row"}
    <3>1. Len(rest) = 1 /\ rest[1] = "truncated" /\ i = (m + 1) + 1  BY <2>1, <2>7, <2>10
    <3>2. table[i] = "truncated"  BY <2>10, <3>1
    <3>3. QED  BY <3>2
  <2>12. Begins(table, m + 1)  BY <2>1, <2>9, <2>10, <2>11 DEF Begins
  <2>13. QED  BY <2>1, <2>2, <2>10, <2>12
<1>3. QED  BY <1>1, <1>2

LEMMA CsvIs ==
  ASSUME NEW a \in Artifacts, a.format = "csv"
  PROVE  LET r == CsvPage(a) IN
         /\ \E csp \in SUBSET Directives : r = Document(a, "page", r.body, csp)
         /\ Fits(r)
         /\ "truncated" \in LiveMarks(r.body)
               <=> a.source > Cardinality({i \in DOMAIN r.body : r.body[i] \in {"header", "row"}})
<1> DEFINE body == Around(RenderCsvTable(a.source))
<1>1. CsvPage(a) = Document(a, "page", body, PageCsp(FALSE))  BY DEF CsvPage, Around
<1>2. a.source \in Nat  BY SourceIs
<1>3. PICK n : /\ RenderCsvTable(a.source) \in Seq(CsvMarks)
               /\ Begins(RenderCsvTable(a.source), n)
               /\ Has(RenderCsvTable(a.source), "truncated") <=> a.source > n
  BY <1>2, TableIs
<1>4. /\ body \in Seq(CsvMarks) /\ Cardinality(RowMarks(body)) = n
      /\ Has(body, "truncated") <=> a.source > n
  BY <1>3, AroundIs
<1> HIDE DEF body
<1>5. "open" \notin CsvMarks /\ CsvMarks \cap Styles = {}  BY DEF CsvMarks, Styles
<1>6. LiveMarks(body) \subseteq CsvMarks /\ ("truncated" \in LiveMarks(body) <=> Has(body, "truncated"))
  BY <1>4, <1>5, MarksOf, AllRead
<1>7. LiveMarks(body) \cap Styles = {}  BY <1>5, <1>6
<1>8. Fits(Document(a, "page", body, PageCsp(FALSE)))  BY <1>7, PageFits
<1>9. CsvPage(a).body = body  BY <1>1 DEF Document
<1>10. PageCsp(FALSE) \in SUBSET Directives  BY PageCspIs
<1>11. RowMarks(body) = {i \in DOMAIN body : body[i] \in {"header", "row"}}  BY DEF RowMarks
<1>12. "truncated" \in LiveMarks(body)
         <=> a.source > Cardinality({i \in DOMAIN body : body[i] \in {"header", "row"}})
  BY <1>4, <1>6, <1>11
<1>13. QED  BY <1>1, <1>8, <1>9, <1>10, <1>12

LEMMA FramingIs ==
  ASSUME NEW a \in Artifacts, a.format \in {"html", "react"}
  PROVE  LET r == FramingPage(a) IN
         /\ \E csp \in SUBSET Directives : r = Document(a, "page", r.body, csp)
         /\ Fits(r)
<1> DEFINE body == <<"+theme", "frame">>
           csp  == PageCsp(FALSE) \cup {"frames self"}
           r    == Document(a, "page", body, csp)
<1>1. FramingPage(a) = r  BY DEF FramingPage
<1>2. csp \in SUBSET Directives /\ {"own scripts", "framed by self"} \subseteq csp
  BY PageCspIs DEF Directives
<1>3. LiveMarks(body) \cap Styles = {}
  <2>1. body \in Seq({"+theme", "frame"})  OBVIOUS
  <2> HIDE DEF body
  <2>2. LiveMarks(body) \subseteq {"+theme", "frame"}  BY <2>1, MarksOf
  <2>3. QED  BY <2>2 DEF Styles
<1>4. {"framed by self", "sandbox"} \subseteq Secured(Raw(a)).csp
  <2>1. CASE a.format = "html"
    <3>1. Raw(a) = HtmlRaw(a)  BY <2>1 DEF Raw
    <3>2. PICK policy \in SUBSET Directives : HtmlRaw(a) = Document(a, "raw", HtmlRaw(a).body, policy)
      BY <2>1, HtmlFits
    <3> DEFINE page == HtmlRaw(a).body
    <3> HIDE DEF page
    <3>3. Secured(Document(a, "raw", page, policy)) = Document(a, "raw", page, policy)
      BY DocumentSecured
    <3>4. Secured(HtmlRaw(a)) = HtmlRaw(a)  BY <3>2, <3>3 DEF page
    <3>5. QED  BY <2>1, <3>1, <3>4, HtmlFits
  <2>2. CASE a.format = "react"
    <3>1. Raw(a) = ReactRaw(a)  BY <2>2 DEF Raw
    <3>2. PICK policy \in SUBSET Directives : ReactRaw(a) = Document(a, "raw", ReactRaw(a).body, policy)
      BY <2>2, ReactIs
    <3> DEFINE page == ReactRaw(a).body
    <3> HIDE DEF page
    <3>3. Secured(Document(a, "raw", page, policy)) = Document(a, "raw", page, policy)
      BY DocumentSecured
    <3>4. Secured(ReactRaw(a)) = ReactRaw(a)  BY <3>2, <3>3 DEF page
    <3>5. QED  BY <2>2, <3>1, <3>4, ReactIs
  <2>3. QED  BY <2>1, <2>2
<1> HIDE DEF body, csp
<1>5. /\ r.artifact = a /\ r.route = "page" /\ r.body = body /\ r.csp = csp
      /\ r.frameOptions = "SAMEORIGIN"
  BY DEF Document
<1>6. r = Document(a, "page", r.body, csp)  BY <1>5
<1> HIDE DEF r
<1>7. Fits(r)  BY <1>2, <1>3, <1>4, <1>5 DEF Fits
<1>8. QED  BY <1>1, <1>2, <1>6, <1>7

-----------------------------------------------------------------------------
(* Taking the assets out again gives the author's document back.            *)

Skips(kept, doc, assets, n) ==
    kept = [i \in 0..n |->
              IF i = 0 THEN <<>>
              ELSE IF doc[i] \in assets THEN kept[i - 1] ELSE Append(kept[i - 1], doc[i])]

LEMMA SkipsExist ==
  ASSUME NEW doc, NEW assets, NEW n \in Nat
  PROVE  \E kept : Skips(kept, doc, assets, n)
<1> DEFINE P == {i \in 0..n : \E kept : Skips(kept, doc, assets, i)}
<1>1. 0 \in P
  <2>1. Skips([i \in 0..0 |-> <<>>], doc, assets, 0)  BY DEF Skips
  <2>2. QED  BY <2>1
<1>2. ASSUME NEW i \in 0..n - 1, i \in P  PROVE i + 1 \in P
  <2>1. PICK kept : Skips(kept, doc, assets, i)  BY <1>2
  <2> DEFINE last == IF doc[i + 1] \in assets THEN kept[i] ELSE Append(kept[i], doc[i + 1])
             more == [j \in 0..i + 1 |-> IF j = i + 1 THEN last ELSE kept[j]]
  <2>2. \A j \in 0..i : more[j] = IF j = 0 THEN <<>>
                                  ELSE IF doc[j] \in assets THEN more[j - 1]
                                                            ELSE Append(more[j - 1], doc[j])
    <3> HIDE DEF last
    <3> SUFFICES ASSUME NEW j \in 0..i
                 PROVE  more[j] = IF j = 0 THEN <<>>
                                  ELSE IF doc[j] \in assets THEN more[j - 1]
                                                            ELSE Append(more[j - 1], doc[j])
      OBVIOUS
    <3>1. more[j] = kept[j] /\ (j # 0 => more[j - 1] = kept[j - 1])  OBVIOUS
    <3> HIDE DEF more
    <3>2. QED  BY <2>1, <3>1 DEF Skips
  <2>3. more[i + 1] = IF doc[i + 1] \in assets THEN more[(i + 1) - 1]
                                               ELSE Append(more[(i + 1) - 1], doc[i + 1])
    <3>1. more[i + 1] = last /\ more[(i + 1) - 1] = kept[i]  OBVIOUS
    <3> HIDE DEF more
    <3>2. QED  BY <3>1
  <2>4. Skips(more, doc, assets, i + 1)
    <3>1. more = [j \in 0..i + 1 |-> more[j]]  OBVIOUS
    <3> HIDE DEF more
    <3>2. \A j \in 0..i + 1 : more[j] = IF j = 0 THEN <<>>
                                  ELSE IF doc[j] \in assets THEN more[j - 1]
                                                            ELSE Append(more[j - 1], doc[j])
      BY <2>2, <2>3
    <3>3. QED  BY <3>1, <3>2 DEF Skips
  <2>5. QED  BY <2>4
<1>3. \A i \in 0..n : i \in P
  <2> HIDE DEF P
  <2> QED  BY <1>1, <1>2, UpTo
<1>4. QED  BY <1>3

LEMMA WithoutIs ==
  ASSUME NEW S, NEW doc \in Seq(S), NEW assets
  PROVE  \E kept : /\ Without(doc, assets) = kept[Len(doc)] /\ kept[0] = <<>>
                   /\ \A i \in 1..Len(doc) :
                        kept[i] = IF doc[i] \in assets THEN kept[i - 1] ELSE Append(kept[i - 1], doc[i])
<1> DEFINE R(kept) == Skips(kept, doc, assets, Len(doc))
<1>1. Without(doc, assets) = (CHOOSE kept : R(kept))[Len(doc)]  BY DEF Without, Skips
<1>2. \E kept : R(kept)
  <2>1. Len(doc) \in Nat  OBVIOUS
  <2>2. QED  BY <2>1, SkipsExist
<1> HIDE DEF R
<1>3. R(CHOOSE kept : R(kept))  BY <1>2
<1> DEFINE kept == CHOOSE f : R(f)
<1>4. Skips(kept, doc, assets, Len(doc))  BY <1>3 DEF R
<1> HIDE DEF kept
<1>5. \A i \in 0..Len(doc) :
        kept[i] = IF i = 0 THEN <<>>
                  ELSE IF doc[i] \in assets THEN kept[i - 1] ELSE Append(kept[i - 1], doc[i])
  BY <1>4, Zenon DEF Skips
<1>6. 0 \in 0..Len(doc) /\ \A i \in 1..Len(doc) : i \in 0..Len(doc) /\ i # 0  OBVIOUS
<1>7. kept[0] = <<>>  BY <1>5, <1>6, Zenon
<1>8. \A i \in 1..Len(doc) :
        kept[i] = IF doc[i] \in assets THEN kept[i - 1] ELSE Append(kept[i - 1], doc[i])
  BY <1>5, <1>6, Zenon
<1>9. QED  BY <1>1, <1>7, <1>8 DEF kept

LEMMA WithoutNone ==
  ASSUME NEW S, NEW doc \in Seq(S), NEW assets, S \cap assets = {}
  PROVE  Without(doc, assets) = doc
<1> DEFINE n == Len(doc)
<1>0. n \in Nat /\ \A i \in 1..n : doc[i] \in S /\ doc[i] \notin assets  OBVIOUS
<1>1. PICK kept : /\ Without(doc, assets) = kept[n] /\ kept[0] = <<>>
                  /\ \A i \in 1..n :
                       kept[i] = IF doc[i] \in assets THEN kept[i - 1] ELSE Append(kept[i - 1], doc[i])
  BY WithoutIs
<1> DEFINE Same(i) == /\ kept[i] \in Seq(S) /\ Len(kept[i]) = i
                      /\ \A j \in 1..i : kept[i][j] = doc[j]
           P == {i \in 0..n : Same(i)}
<1>2. Same(0)  BY <1>1
<1>3. ASSUME NEW i \in 0..n - 1, Same(i)  PROVE Same(i + 1)
  <2>1. i + 1 \in 1..n /\ (i + 1) - 1 = i  BY <1>0
  <2>2. kept[i + 1] = Append(kept[i], doc[i + 1]) /\ doc[i + 1] \in S  BY <1>0, <1>1, <2>1
  <2> DEFINE d == kept[i]
  <2>3. d \in Seq(S) /\ Len(d) = i /\ \A j \in 1..i : d[j] = doc[j]  BY <1>3
  <2> HIDE DEF d
  <2>4. LET e == Append(d, doc[i + 1]) IN
        /\ e \in Seq(S) /\ Len(e) = i + 1 /\ e[i + 1] = doc[i + 1]
        /\ \A j \in 1..i : e[j] = doc[j]
    BY <2>2, <2>3
  <2>5. \A j \in 1..i + 1 : j \in 1..i \/ j = i + 1  BY <1>0
  <2>6. QED  BY <2>2, <2>4, <2>5 DEF d
<1>4. \A i \in 0..n : i \in P
  <2>1. 0 \in P  BY <1>0, <1>2
  <2>2. \A i \in 0..n - 1 : i \in P => i + 1 \in P  BY <1>0, <1>3
  <2> HIDE DEF P
  <2>3. QED  BY <1>0, <2>1, <2>2, UpTo
<1>5. Same(n)
  <2>1. n \in 0..n  BY <1>0
  <2>2. QED  BY <1>4, <2>1
<1>6. kept[n] = doc
  <2> DEFINE d == kept[n]
  <2>1. d \in Seq(S) /\ Len(d) = n /\ \A j \in 1..n : d[j] = doc[j]  BY <1>5
  <2> HIDE DEF d
  <2>2. d = doc  BY <2>1
  <2>3. QED  BY <2>2 DEF d
<1>7. QED  BY <1>1, <1>6

LEMMA WithoutSpliced ==
  ASSUME NEW S, NEW doc \in Seq(S), NEW new \in Seq(S), NEW assets, NEW asset \in assets,
         NEW k \in 0..Len(doc), Spliced(new, doc, k, asset)
  PROVE  Without(new, assets) = Without(doc, assets)
<1> DEFINE n == Len(doc)
<1>0. n \in Nat /\ Len(new) = n + 1 /\ k \in 0..n  BY DEF Spliced
<1>1. PICK was : /\ Without(doc, assets) = was[n] /\ was[0] = <<>>
                 /\ \A i \in 1..n :
                      was[i] = IF doc[i] \in assets THEN was[i - 1] ELSE Append(was[i - 1], doc[i])
  BY WithoutIs
<1>2. PICK is : /\ Without(new, assets) = is[n + 1] /\ is[0] = <<>>
                /\ \A i \in 1..n + 1 :
                     is[i] = IF new[i] \in assets THEN is[i - 1] ELSE Append(is[i - 1], new[i])
  BY <1>0, WithoutIs
<1>3. /\ new[k + 1] \in assets
      /\ \A i \in 1..k : new[i] = doc[i]
      /\ \A i \in k + 1..n : new[i + 1] = doc[i]
  BY DEF Spliced
<1> HIDE DEF n
<1>4. is[k + 1] = is[k]
  <2>1. k + 1 \in 1..n + 1 /\ (k + 1) - 1 = k  BY <1>0
  <2>2. QED  BY <1>2, <1>3, <2>1
<1> DEFINE Same(i) == (i <= k => is[i] = was[i]) /\ (i >= k => is[i + 1] = was[i])
           P == {i \in 0..n : Same(i)}
<1>5. Same(0)
  <2>1. CASE k = 0  BY <1>1, <1>2, <1>4, <2>1
  <2>2. CASE k # 0
    <3>1. ~(0 >= k)  BY <1>0, <2>2
    <3>2. QED  BY <1>1, <1>2, <3>1
  <2>3. QED  BY <2>1, <2>2
<1>6. ASSUME NEW i \in 0..n - 1, Same(i)  PROVE Same(i + 1)
  <2>0. /\ i + 1 \in 1..n /\ i + 1 \in 1..n + 1 /\ i + 2 \in 1..n + 1
        /\ (i + 1) - 1 = i /\ (i + 2) - 1 = i + 1 /\ (i + 1) + 1 = i + 2
    BY <1>0
  <2>1. /\ was[i + 1] = IF doc[i + 1] \in assets THEN was[i] ELSE Append(was[i], doc[i + 1])
        /\ is[i + 1] = IF new[i + 1] \in assets THEN is[i] ELSE Append(is[i], new[i + 1])
        /\ is[i + 2] = IF new[i + 2] \in assets THEN is[i + 1] ELSE Append(is[i + 1], new[i + 2])
    BY <1>1, <1>2, <2>0
  <2>2. CASE i + 1 <= k
    <3>1. i <= k /\ i + 1 \in 1..k  BY <2>0, <2>2
    <3>2. new[i + 1] = doc[i + 1] /\ is[i] = was[i]  BY <1>3, <1>6, <3>1
    <3>3. is[i + 1] = was[i + 1]  BY <2>1, <3>2
    <3>4. CASE i + 1 = k
      <4>1. is[(i + 1) + 1] = was[i + 1]  BY <1>4, <3>3, <3>4
      <4>2. QED  BY <3>3, <4>1
    <3>5. CASE i + 1 # k
      <4>1. ~(i + 1 >= k)  BY <1>0, <2>2, <3>5
      <4>2. QED  BY <3>3, <4>1
    <3>6. QED  BY <3>4, <3>5
  <2>3. CASE ~(i + 1 <= k)
    <3>1. i >= k /\ i + 1 \in k + 1..n  BY <1>0, <2>0, <2>3
    <3>2. new[i + 2] = doc[i + 1] /\ is[i + 1] = was[i]  BY <1>3, <1>6, <2>0, <3>1
    <3>3. is[(i + 1) + 1] = was[i + 1]  BY <2>0, <2>1, <3>2
    <3>4. QED  BY <2>3, <3>3
  <2>4. QED  BY <2>2, <2>3
<1>7. \A i \in 0..n : i \in P
  <2>1. 0 \in P  BY <1>0, <1>5
  <2>2. \A i \in 0..n - 1 : i \in P => i + 1 \in P  BY <1>0, <1>6
  <2> HIDE DEF P
  <2>3. QED  BY <1>0, <2>1, <2>2, UpTo
<1>8. is[n + 1] = was[n]
  <2>1. n \in 0..n /\ n >= k  BY <1>0
  <2>2. QED  BY <1>7, <2>1
<1>9. QED  BY <1>1, <1>2, <1>8

\* Rewriting what was spliced is splicing what was rewritten.
LEMMA RewriteSpliced ==
  ASSUME NEW S, "+lib" \in S, NEW doc \in Seq(S), NEW new \in Seq(S), NEW asset,
         asset \notin {"open", "close", "lib"}, NEW k \in 0..Len(doc), Spliced(new, doc, k, asset)
  PROVE  Spliced(RewriteLibraries(new), RewriteLibraries(doc), k, asset)
<1> DEFINE n   == Len(doc)
           out == RewriteLibraries(new)
           in  == RewriteLibraries(doc)
<1>0. n \in Nat /\ Len(new) = n + 1 /\ k \in 0..n  BY DEF Spliced
<1>1. /\ Len(in) = n
      /\ \A i \in 1..n : in[i] = IF doc[i] = "lib" /\ i \in Live(doc) THEN "+lib" ELSE doc[i]
  BY RewrittenIs
<1>2. /\ Len(out) = n + 1
      /\ \A i \in 1..n + 1 : out[i] = IF new[i] = "lib" /\ i \in Live(new) THEN "+lib" ELSE new[i]
  BY <1>0, RewrittenIs
<1>3. /\ new[k + 1] = asset
      /\ \A i \in 1..k : new[i] = doc[i]
      /\ \A i \in k + 1..n : new[i + 1] = doc[i]
  BY DEF Spliced
<1>4. /\ \A i \in 1..k : i \in Live(new) <=> i \in Live(doc)
      /\ \A i \in k + 1..n : i + 1 \in Live(new) <=> i \in Live(doc)
  BY SplicedLive
<1> HIDE DEF n, out, in
<1>5. out[k + 1] = asset
  <2>1. k + 1 \in 1..n + 1  BY <1>0
  <2>2. QED  BY <1>2, <1>3, <2>1
<1>6. ASSUME NEW i \in 1..k  PROVE out[i] = in[i]
  <2>1. i \in 1..n /\ i \in 1..n + 1  BY <1>0
  <2>2. QED  BY <1>1, <1>2, <1>3, <1>4, <2>1
<1>7. ASSUME NEW i \in k + 1..n  PROVE out[i + 1] = in[i]
  <2>1. i \in 1..n /\ i + 1 \in 1..n + 1  BY <1>0
  <2>2. QED  BY <1>1, <1>2, <1>3, <1>4, <2>1
<1>8. QED  BY <1>1, <1>2, <1>5, <1>6, <1>7 DEF Spliced, out, in

LEMMA HtmlServed ==
  ASSUME NEW a \in Artifacts, a.format = "html"
  PROVE  HtmlServes(a.source, HtmlRaw(a).body)
<1> DEFINE source    == a.source
           drawn     == InjectMermaid(source)
           rewritten == RewriteLibraries(drawn)
           mapped    == InjectGeo(rewritten)
           dressed   == InjectIcons(mapped)
           plain     == RewriteLibraries(source)
           assets    == {"+mermaid", "+geo", "+icons"}
           M         == Marks \cup {"+mermaid", "+lib", "+geo", "+icons"}
<1>1. HtmlRaw(a).body = dressed  BY DEF HtmlRaw, Document
<1>2. source \in Seq(Marks)  BY SourceIs
<1>3. source \in Seq(M) /\ {"+mermaid", "+lib", "+geo", "+icons"} \subseteq M  BY <1>2, SeqInto
<1> HIDE DEF M, source
<1>4. /\ drawn \in Seq(M) /\ Kept(drawn, source, {"+mermaid"})
      /\ "mermaid" \in LiveMarks(source) /\ SpliceLives(source, "body") => "+mermaid" \in LiveMarks(drawn)
      /\ drawn # source => \E k \in 0..Len(source) : Spliced(drawn, source, k, "+mermaid")
  BY <1>3, InjectMermaidIs
<1> HIDE DEF drawn
<1>5. rewritten \in Seq(M) /\ Kept(rewritten, drawn, {"lib", "+lib"})  BY <1>3, <1>4, RewriteIs
<1>6. /\ mapped \in Seq(M) /\ Kept(mapped, rewritten, {"+geo"})
      /\ "geo" \in LiveMarks(rewritten) /\ SpliceLives(rewritten, "head") =>
           /\ "+geo" \in LiveMarks(mapped)
           /\ Precedes(rewritten, "head", "geo") \/ "head" \notin LiveMarks(rewritten)
                => Precedes(mapped, "+geo", "geo")
      /\ mapped # rewritten => \E k \in 0..Len(rewritten) : Spliced(mapped, rewritten, k, "+geo")
  <2> HIDE DEF rewritten
  <2>1. QED  BY <1>3, <1>5, InjectGeoIs
<1>7. /\ dressed \in Seq(M) /\ Kept(dressed, mapped, {"+icons"})
      /\ "icons" \in LiveMarks(mapped) /\ SpliceLives(mapped, "body") => "+icons" \in LiveMarks(dressed)
      /\ dressed # mapped => \E k \in 0..Len(mapped) : Spliced(dressed, mapped, k, "+icons")
  <2> HIDE DEF mapped
  <2>1. QED  BY <1>3, <1>6, InjectIconsIs
<1> HIDE DEF mapped, dressed
<1>8. Without(dressed, assets) = Without(mapped, assets)
  <2>1. CASE dressed = mapped  BY <2>1
  <2>2. CASE dressed # mapped  BY <1>6, <1>7, <2>2, WithoutSpliced
  <2>3. QED  BY <2>1, <2>2
<1>9. Without(mapped, assets) = Without(rewritten, assets)
  <2> HIDE DEF rewritten
  <2>1. CASE mapped = rewritten  BY <2>1
  <2>2. CASE mapped # rewritten  BY <1>5, <1>6, <2>2, WithoutSpliced
  <2>3. QED  BY <2>1, <2>2
<1>10. plain \in Seq(M) /\ plain \in Seq(Marks \cup {"+lib"})
       /\ Len(plain) = Len(source)
       /\ \A i \in 1..Len(source) :
            plain[i] = IF source[i] = "lib" /\ i \in Live(source) THEN "+lib" ELSE source[i]
  <2>1. source \in Seq(Marks \cup {"+lib"})  BY <1>2, SeqInto
  <2>2. plain \in Seq(Marks \cup {"+lib"})  BY <2>1, RewrittenIs
  <2>3. QED  BY <1>3, <2>2, RewrittenIs
<1>11. Without(rewritten, assets) = Without(plain, assets)
  <2>1. CASE drawn = source  BY <2>1
  <2>2. CASE drawn # source
    <3>1. PICK k \in 0..Len(source) : Spliced(drawn, source, k, "+mermaid")  BY <1>4, <2>2
    <3>2. Spliced(rewritten, plain, k, "+mermaid")  BY <1>3, <1>4, <3>1, RewriteSpliced
    <3> HIDE DEF rewritten, plain
    <3>3. k \in 0..Len(plain)  BY <1>10
    <3>4. QED  BY <1>5, <1>10, <3>2, <3>3, WithoutSpliced
  <2>3. QED  BY <2>1, <2>2
<1> HIDE DEF rewritten, plain
<1>12. Without(plain, assets) = plain
  <2>1. (Marks \cup {"+lib"}) \cap assets = {}  BY DEF Marks
  <2>2. QED  BY <1>10, <2>1, WithoutNone
<1>13. plain = [i \in DOMAIN source |->
                  IF source[i] = "lib" /\ i \in Live(source) THEN "+lib" ELSE source[i]]
  <2>1. DOMAIN source = 1..Len(source) /\ DOMAIN plain = 1..Len(plain) /\ plain = [i \in DOMAIN plain |-> plain[i]]
    BY <1>2, <1>10
  <2>2. QED  BY <1>10, <2>1
<1>14. "mermaid" \in LiveMarks(source) /\ SpliceLives(source, "body") => "+mermaid" \in LiveMarks(dressed)
  <2>1. "+mermaid" \in LiveMarks(drawn) => "+mermaid" \in LiveMarks(rewritten)  BY <1>5 DEF Kept
  <2>2. "+mermaid" \in LiveMarks(rewritten) => "+mermaid" \in LiveMarks(mapped)  BY <1>6 DEF Kept
  <2>3. "+mermaid" \in LiveMarks(mapped) => "+mermaid" \in LiveMarks(dressed)  BY <1>7 DEF Kept
  <2>4. QED  BY <1>4, <2>1, <2>2, <2>3
<1>15. ASSUME NEW mark, mark \notin {"+mermaid", "lib", "+lib"}
       PROVE  /\ mark \in LiveMarks(rewritten) <=> mark \in LiveMarks(source)
              /\ SpliceLives(rewritten, mark) <=> SpliceLives(source, mark)
  BY <1>4, <1>5, <1>15 DEF Kept
<1>16. "icons" \in LiveMarks(source) /\ SpliceLives(source, "body") => "+icons" \in LiveMarks(dressed)
  <2>1. /\ "icons" \in LiveMarks(rewritten) <=> "icons" \in LiveMarks(source)
        /\ SpliceLives(rewritten, "body") <=> SpliceLives(source, "body")
    BY <1>15
  <2>2. /\ "icons" \in LiveMarks(mapped) <=> "icons" \in LiveMarks(rewritten)
        /\ SpliceLives(mapped, "body") <=> SpliceLives(rewritten, "body")
    BY <1>6 DEF Kept
  <2>3. QED  BY <1>7, <2>1, <2>2
<1>17. "geo" \in LiveMarks(source) /\ SpliceLives(source, "head") =>
         /\ "+geo" \in LiveMarks(dressed)
         /\ Precedes(source, "head", "geo") \/ "head" \notin LiveMarks(source)
              => Precedes(dressed, "+geo", "geo")
  <2>1. /\ "geo" \in LiveMarks(rewritten) <=> "geo" \in LiveMarks(source)
        /\ "head" \in LiveMarks(rewritten) <=> "head" \in LiveMarks(source)
        /\ SpliceLives(rewritten, "head") <=> SpliceLives(source, "head")
    BY <1>15
  <2>2. Precedes(source, "head", "geo") => Precedes(drawn, "head", "geo")  BY <1>4 DEF Kept
  <2>3. Precedes(drawn, "head", "geo") => Precedes(rewritten, "head", "geo")  BY <1>5 DEF Kept
  <2>4. Precedes(mapped, "+geo", "geo") => Precedes(dressed, "+geo", "geo")  BY <1>7 DEF Kept
  <2>5. "+geo" \in LiveMarks(mapped) => "+geo" \in LiveMarks(dressed)  BY <1>7 DEF Kept
  <2>6. QED  BY <1>6, <2>1, <2>2, <2>3, <2>4, <2>5
<1>18. \A feature \in {<<"mermaid", "+mermaid">>, <<"icons", "+icons">>} :
         feature[1] \in LiveMarks(source) /\ SpliceLives(source, "body")
           => feature[2] \in LiveMarks(dressed)
  BY <1>14, <1>16
<1>19. HtmlServes(source, dressed)
  BY <1>8, <1>9, <1>11, <1>12, <1>13, <1>17, <1>18 DEF HtmlServes
<1>20. QED  BY <1>1, <1>19 DEF source

-----------------------------------------------------------------------------
(* Every answer *)

Answers == {Secured(Page(a)) : a \in Artifacts} \cup {Secured(Raw(a)) : a \in Artifacts}

LEMMA BareFits ==
  ASSUME NEW a, NEW route, NEW type
  PROVE  Fits(Secured(Bare(a, route, type))) /\ Secured(Bare(a, route, type)).type = type
<1> DEFINE r == Secured(Bare(a, route, type))
<1>1. r.body = <<>> /\ r.csp = {} /\ r.frameOptions = "DENY" /\ r.type = type
  BY DEF Secured, Bare
<1>2. LiveMarks(r.body) = {}
  <2>1. <<>> \in Seq({})  OBVIOUS
  <2>2. LiveMarks(<<>>) \subseteq {}  BY <2>1, MarksOf
  <2>3. QED  BY <1>1, <2>2
<1> HIDE DEF r
<1>3. Fits(r) /\ r.type = type  BY <1>1, <1>2 DEF Fits
<1>4. QED  BY <1>3 DEF r

LEMMA PagesFit ==
  ASSUME NEW a \in Artifacts
  PROVE  LET r == Secured(Page(a)) IN Fits(r) /\ (r.type = "document" => Serves(r))
<1> DEFINE p == Page(a)
<1>1. CASE a.format = "missing"
  <2>1. p = Bare(a, "page", "not found")  BY <1>1 DEF Page
  <2>2. Fits(Secured(p)) /\ Secured(p).type = "not found"  BY <2>1, BareFits
  <2> HIDE DEF p
  <2>3. Fits(Secured(p)) /\ Secured(p).type # "document"  BY <2>2
  <2>4. QED  BY <2>3 DEF p
<1>2. ASSUME NEW csp \in SUBSET Directives, p = Document(a, "page", p.body, csp), Fits(p),
             a.format = "markdown" =>
               ("mermaid" \in a.source => /\ "+mermaid" \in LiveMarks(p.body)
                                          /\ Precedes(p.body, "+theme", "+mermaid")),
             a.format = "csv" =>
               ("truncated" \in LiveMarks(p.body)
                  <=> a.source > Cardinality({i \in DOMAIN p.body : p.body[i] \in {"header", "row"}}))
      PROVE  Fits(Secured(p)) /\ Serves(Secured(p))
  <2> HIDE DEF p
  <2> DEFINE body == p.body
  <2> HIDE DEF body
  <2>1. Secured(Document(a, "page", body, csp)) = Document(a, "page", body, csp)  BY DocumentSecured
  <2>2. Secured(p) = p  BY <1>2, <2>1 DEF body
  <2>3. p.artifact = a /\ p.route = "page"  BY <1>2 DEF Document
  <2>4. Serves(p)  BY <1>2, <2>3 DEF Serves
  <2>5. QED  BY <1>2, <2>2, <2>4
<1>3. CASE a.format = "markdown"
  <2>1. p = MarkdownPage(a)  BY <1>3 DEF Page
  <2> HIDE DEF p
  <2>2. QED  BY <1>2, <1>3, <2>1, MarkdownIs DEF p
<1>4. CASE a.format = "code"
  <2>1. p = CodePage(a)  BY <1>4 DEF Page
  <2> HIDE DEF p
  <2>2. QED  BY <1>2, <1>4, <2>1, CodeIs DEF p
<1>5. CASE a.format = "csv"
  <2>1. p = CsvPage(a)  BY <1>5 DEF Page
  <2> HIDE DEF p
  <2>2. QED  BY <1>2, <1>5, <2>1, CsvIs DEF p
<1>6. CASE a.format \in {"html", "react"}
  <2>1. p = FramingPage(a)  BY <1>6 DEF Page
  <2> HIDE DEF p
  <2>2. QED  BY <1>2, <1>6, <2>1, FramingIs DEF p
<1>7. QED  BY <1>1, <1>3, <1>4, <1>5, <1>6, SourceIs

LEMMA RawFits ==
  ASSUME NEW a \in Artifacts
  PROVE  LET r == Secured(Raw(a)) IN Fits(r) /\ (r.type = "document" => Serves(r))
<1> DEFINE p == Raw(a)
<1>1. ASSUME NEW type, type # "document", p = Bare(a, "raw", type)
      PROVE  Fits(Secured(p)) /\ Secured(p).type # "document"
  <2> HIDE DEF p
  <2>1. QED  BY <1>1, BareFits
<1>2. ASSUME NEW csp \in SUBSET Directives, p = Document(a, "raw", p.body, csp), Fits(p),
             a.format = "html" => HtmlServes(a.source, p.body),
             a.format = "react" => \A asset \in {<<"lib", "+lib">>, <<"geo", "+geo">>} :
                                     asset[1] \in a.source => Precedes(p.body, asset[2], "+init")
      PROVE  Fits(Secured(p)) /\ Serves(Secured(p))
  <2> HIDE DEF p
  <2> DEFINE body == p.body
  <2> HIDE DEF body
  <2>1. Secured(Document(a, "raw", body, csp)) = Document(a, "raw", body, csp)  BY DocumentSecured
  <2>2. Secured(p) = p  BY <1>2, <2>1 DEF body
  <2>3. p.artifact = a /\ p.route = "raw"  BY <1>2 DEF Document
  <2>4. Serves(p)  BY <1>2, <2>3 DEF Serves
  <2>5. QED  BY <1>2, <2>2, <2>4
<1>3. CASE a.format = "html"
  <2>1. p = HtmlRaw(a)  BY <1>3 DEF Raw
  <2> HIDE DEF p
  <2>2. QED  BY <1>2, <1>3, <2>1, HtmlFits, HtmlServed DEF p
<1>4. CASE a.format = "react"
  <2>1. p = ReactRaw(a)  BY <1>4 DEF Raw
  <2> HIDE DEF p
  <2>2. QED  BY <1>2, <1>4, <2>1, ReactIs DEF p
<1>5. CASE a.format \in {"code", "csv"}
  <2>1. p = Bare(a, "raw", "text")  BY <1>5 DEF Raw
  <2>2. QED  BY <1>1, <2>1
<1>6. CASE a.format \in {"markdown", "missing"}
  <2>1. p = Bare(a, "raw", "not found")  BY <1>6 DEF Raw
  <2>2. QED  BY <1>1, <2>1
<1>7. QED  BY <1>3, <1>4, <1>5, <1>6, SourceIs

============================================================================
