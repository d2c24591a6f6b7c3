--------------------------- MODULE Search_proofs ---------------------------
(***************************************************************************)
(* Proofs about Search, for every size of the array and every set of code  *)
(* points.                                                                 *)
(***************************************************************************)
EXTENDS SearchRefinement, Extrema, SequenceTheorems, FiniteSetTheorems

Byte == 1 .. 255

(* The encoding of a code point: its length, which the first byte tells,   *)
(* and continuation bytes everywhere else.                                 *)
LEMMA EncodeLemma ==
  ASSUME NEW ch \in Codepoint
  PROVE  /\ utf8_chsize(ch) \in 1 .. 4
         /\ utf8_encode(ch) \in Seq(Byte)
         /\ Len(utf8_encode(ch)) = utf8_chsize(ch)
         /\ ~ IsContinuation(utf8_encode(ch)[1])
         /\ Width(utf8_encode(ch)[1]) = utf8_chsize(ch)
         /\ \A i \in 2 .. utf8_chsize(ch) : IsContinuation(utf8_encode(ch)[i])
<1> DEFINE n == utf8_chsize(ch)
           e(i) == IF i = 1 THEN first(n) + Shift(ch, n - 1)
                            ELSE 128 + (Shift(ch, n - i) % 64)
<1>1. ch \in Nat /\ 0 < ch /\ ch < 1114112
  BY SearchAssumption, SMT DEF Unicode
<1>2. /\ n \in 1 .. 4
      /\ n = 1 => ch < 128
      /\ n = 2 => 128 <= ch /\ ch < 2048
      /\ n = 3 => 2048 <= ch /\ ch < 65536
      /\ n = 4 => 65536 <= ch
  BY <1>1 DEF utf8_chsize
<1>3. /\ e(1) \in Byte
      /\ e(1) \div 64 # 2
      /\ Width(e(1)) = n
  <2>1. CASE n = 1
    BY <1>1, <1>2, <2>1 DEF first, Shift, Width, Byte
  <2>2. CASE n = 2
    BY <1>1, <1>2, <2>2 DEF first, Shift, Width, Byte
  <2>3. CASE n = 3
    BY <1>1, <1>2, <2>3 DEF first, Shift, Width, Byte
  <2>4. CASE n = 4
    BY <1>1, <1>2, <2>4 DEF first, Shift, Width, Byte
  <2>5. QED
    BY <1>2, <2>1, <2>2, <2>3, <2>4
<1>4. \A i \in 2 .. n : e(i) \in Byte /\ e(i) \div 64 = 2
  <2> SUFFICES ASSUME NEW i \in 2 .. n PROVE e(i) \in Byte /\ e(i) \div 64 = 2
    OBVIOUS
  <2>1. n - i \in 0 .. 2
    BY <1>2
  <2>2. Shift(ch, n - i) \in Nat
    BY <1>1, <2>1 DEF Shift
  <2>3. Shift(ch, n - i) % 64 \in 0 .. 63
    BY <2>2
  <2>4. e(i) = 128 + (Shift(ch, n - i) % 64)
    OBVIOUS
  <2>5. QED
    BY <2>3, <2>4 DEF Byte
<1>5. utf8_encode(ch) = [i \in 1 .. n |-> e(i)]
  BY DEF utf8_encode
<1>6. \A i \in 1 .. n : e(i) \in Byte
  BY <1>2, <1>3, <1>4
<1> HIDE DEF e
<1>7. utf8_encode(ch) \in [1 .. n -> Byte]
  BY <1>5, <1>6
<1>8. utf8_encode(ch) \in Seq(Byte) /\ Len(utf8_encode(ch)) = n
  BY <1>2, <1>7
<1>9. \A i \in 1 .. n : utf8_encode(ch)[i] = e(i)
  BY <1>5
<1>10. QED
  BY <1>2, <1>3, <1>4, <1>8, <1>9 DEF IsContinuation

(* BackSpace cuts the buffer before the last position at which a character *)
(* begins, if there is one.                                                *)
LEMMA EraseLemma ==
  ASSUME data \in Seq(Byte), search_remove_last_uft8_character
  PROVE  /\ data' \in Seq(Byte)
         /\ Leads(data) = {} => data' = data
         /\ Leads(data) # {} =>
              \E last \in Leads(data) :
                /\ \A j \in Leads(data) : j <= last
                /\ Len(data') = last - 1
                /\ \A i \in 1 .. last - 1 : data'[i] = data[i]
<1>1. Len(data) \in Nat /\ DOMAIN data = 1 .. Len(data)
  BY LenProperties
<1>2. CASE Leads(data) = {}
  <2>1. data' = SubSeq(data, 1, Len(data))
    BY <1>1, <1>2
       DEF search_remove_last_uft8_character, utf8_nr_bytes_to_prev_character, len
  <2>2. data' = data
    BY <2>1, SubSeqFull
  <2>3. QED
    BY <1>2, <2>2
<1>3. CASE Leads(data) # {}
  <2> DEFINE last == CHOOSE i \in Leads(data) : \A j \in Leads(data) : j <= i
  <2>1. Leads(data) \in SUBSET (0 .. Len(data)) /\ Leads(data) \subseteq 1 .. Len(data)
    BY <1>1 DEF Leads
  <2>2. \E i \in Leads(data) : \A j \in Leads(data) : j <= i
    BY <1>1, <1>3, <2>1, GreatestExists
  <2>3. last \in Leads(data) /\ \A j \in Leads(data) : j <= last
    BY <2>2
  <2>4. data' = SubSeq(data, 1, Len(data) - (Len(data) - last + 1))
    BY <1>3 DEF search_remove_last_uft8_character,
                utf8_nr_bytes_to_prev_character, len
  <2> HIDE DEF last
  <2>5. last \in 1 .. Len(data)
    BY <2>1, <2>3
  <2>6. data' = SubSeq(data, 1, last - 1)
    BY <1>1, <2>4, <2>5
  <2>7. \A i \in 1 .. last - 1 : data[i] \in Byte
    BY <1>1, <2>5, ElementOfSeq
  <2>8. /\ data' \in Seq(Byte)
        /\ Len(data') = last - 1
        /\ \A i \in 1 .. last - 1 : data'[i] = data[i]
    <3>1. last - 1 \in Int /\ 1 \in Int
      BY <2>5
    <3>2. /\ SubSeq(data, 1, last - 1) \in Seq(Byte)
          /\ Len(SubSeq(data, 1, last - 1)) =
               IF 1 <= last - 1 THEN last - 1 - 1 + 1 ELSE 0
          /\ \A i \in 1 .. last - 1 - 1 + 1 :
               SubSeq(data, 1, last - 1)[i] = data[1 + i - 1]
      BY <2>7, <3>1, SubSeqProperties
    <3>3. QED
      BY <2>5, <2>6, <3>2
  <2>9. QED
    BY <1>3, <2>3, <2>8
<1>4. QED
  BY <1>2, <1>3

(* A character typed leaves the buffer alone or goes to its end.           *)
LEMMA TypeLemma ==
  ASSUME data \in Seq(Byte), BufSize \in Nat,
         NEW ch \in Codepoint, search_add_utf8_character(ch)
  PROVE  \/ data' = data
         \/ /\ data' \in Seq(Byte)
            /\ Len(data') = Len(data) + utf8_chsize(ch)
            /\ Len(data') + 1 < BufSize
            /\ \A i \in 1 .. Len(data) : data'[i] = data[i]
            /\ \A i \in 1 .. utf8_chsize(ch) :
                 data'[Len(data) + i] = utf8_encode(ch)[i]
<1> DEFINE e == utf8_encode(ch)
           n == utf8_chsize(ch)
<1>1. Len(data) \in Nat
  BY LenProperties
<1>2. n \in 1 .. 4 /\ e \in Seq(Byte) /\ Len(e) = n
  BY EncodeLemma
<1>3. CASE len + n + 1 >= BufSize
  BY <1>3 DEF search_add_utf8_character
<1>4. CASE ~ (len + n + 1 >= BufSize)
  <2>1. data' = data \o e /\ Len(data) + n + 1 < BufSize
    BY <1>1, <1>2, <1>4 DEF search_add_utf8_character, len
  <2> HIDE DEF e, n
  <2>2. /\ data' \in Seq(Byte)
        /\ Len(data') = Len(data) + n
        /\ \A i \in 1 .. Len(data) + n :
             data'[i] = IF i <= Len(data) THEN data[i] ELSE e[i - Len(data)]
    BY <1>2, <2>1, ConcatProperties
  <2>3. \A i \in 1 .. Len(data) : data'[i] = data[i]
    BY <1>1, <1>2, <2>2
  <2>4. \A i \in 1 .. n : data'[Len(data) + i] = e[i]
    <3> SUFFICES ASSUME NEW i \in 1 .. n PROVE data'[Len(data) + i] = e[i]
      OBVIOUS
    <3>1. Len(data) + i \in 1 .. Len(data) + n /\ ~ (Len(data) + i <= Len(data))
          /\ Len(data) + i - Len(data) = i
      BY <1>1, <1>2
    <3>2. QED
      BY <2>2, <3>1
  <2>5. Len(data') + 1 < BufSize
    BY <2>1, <2>2
  <2>6. QED
    BY <2>2, <2>3, <2>4, <2>5 DEF e, n
<1>5. QED
  BY <1>3, <1>4

Inv == TypeOK /\ InBounds

(* The bytes typed and erased stay inside the array.                       *)
LEMMA NextInv == Inv /\ [Next]_data => Inv'
<1> SUFFICES ASSUME Inv, [Next]_data PROVE Inv'
  OBVIOUS
<1>1. data \in Seq(Byte) /\ Len(data) \in Nat /\ BufSize \in Nat
  BY LenProperties, SearchAssumption DEF Inv, TypeOK, Byte
<1>2. CASE data' = data
  BY <1>2 DEF Inv, TypeOK, InBounds, len
<1>3. CASE search_remove_last_uft8_character
  <2>1. CASE Leads(data) = {}
    BY <1>1, <1>2, <1>3, <2>1, EraseLemma
  <2>2. CASE Leads(data) # {}
    <3>1. data' \in Seq(Byte)
      BY <1>1, <1>3, EraseLemma
    <3>2. PICK last \in Leads(data) : Len(data') = last - 1
      BY <1>1, <1>3, <2>2, EraseLemma
    <3>3. last \in 1 .. Len(data)
      BY <1>1, LenProperties DEF Leads
    <3>4. data # << >>
      BY <1>1, <3>3
    <3>5. Len(data) < BufSize
      BY <3>4 DEF Inv, InBounds, len
    <3>6. Len(data') < BufSize
      BY <1>1, <3>2, <3>3, <3>5
    <3>7. QED
      BY <3>1, <3>6 DEF Inv, TypeOK, InBounds, len, Byte
  <2>3. QED
    BY <2>1, <2>2
<1>4. ASSUME NEW ch \in Codepoint, search_add_utf8_character(ch) PROVE Inv'
  <2>1. CASE data' = data
    BY <1>2, <2>1
  <2>2. CASE data' \in Seq(Byte) /\ Len(data') + 1 < BufSize
    <3>1. Len(data') < BufSize
      BY <1>1, <2>2, LenProperties
    <3>2. QED
      BY <2>2, <3>1 DEF Inv, TypeOK, InBounds, len, Byte
  <2>3. QED
    BY <1>1, <1>4, <2>1, <2>2, TypeLemma
<1>5. QED
  BY <1>2, <1>3, <1>4 DEF Next

(* The search buffer never overruns its array.                             *)
THEOREM Bounded == Spec => [](TypeOK /\ InBounds)
<1>1. Init => Inv
  BY EmptySeq DEF Init, Inv, TypeOK, InBounds
<1>2. Inv => TypeOK /\ InBounds
  BY DEF Inv
<1>3. QED
  BY <1>1, <1>2, NextInv, PTL DEF Spec

(* The character that begins at position i of buf ends before position n,  *)
(* and the next one, if any, begins there.                                 *)
WholeTo(buf, i, n) ==
  /\ n <= Len(buf) + 1
  /\ \A j \in i + 1 .. n - 1 : IsContinuation(buf[j])
  /\ n <= Len(buf) => ~ IsContinuation(buf[n])

(* The character that begins at position i of the buffer is whole. *)
WholeAt(i) == WholeTo(data, i, i + Width(data[i]))

(* WholeCharacters, position by position.                                  *)
Whole ==
  /\ data # << >> => ~ IsContinuation(data[1])
  /\ \A i \in 1 .. Len(data) : ~ IsContinuation(data[i]) => WholeAt(i)

LEMMA WidthType == \A b \in Byte : Width(b) \in 1 .. 4
BY DEF Byte, Width

LEMMA WholeIsWholeCharacters ==
  ASSUME data \in Seq(Byte)
  PROVE  Whole <=> WholeCharacters
<1>1. Len(data) \in Nat /\ DOMAIN data = 1 .. Len(data)
  BY LenProperties
<1>2. \A i \in 1 .. Len(data) : i \in Leads(data) <=> ~ IsContinuation(data[i])
  BY <1>1 DEF Leads
<1>3. Leads(data) \subseteq 1 .. Len(data)
  BY <1>1 DEF Leads
<1>4. data # << >> => 1 \in 1 .. Len(data)
  BY <1>1, EmptySeq
<1>5. ASSUME NEW i \in 1 .. Len(data)
      PROVE  WholeAt(i) <=>
               LET next == i + Width(data[i])
               IN  /\ next <= len + 1
                   /\ \A j \in i + 1 .. next - 1 : j \notin Leads(data)
                   /\ next <= len => next \in Leads(data)
  <2> DEFINE next == i + Width(data[i])
  <2>1. data[i] \in Byte
    BY ElementOfSeq
  <2>2. Width(data[i]) \in 1 .. 4
    BY <2>1, WidthType
  <2>3. next \in Nat /\ next > i
    BY <1>1, <2>2
  <2> HIDE DEF next
  <2>4. ASSUME next <= Len(data) + 1
        PROVE  (\A j \in i + 1 .. next - 1 : IsContinuation(data[j]))
                 <=> (\A j \in i + 1 .. next - 1 : j \notin Leads(data))
    <3>1. \A j \in i + 1 .. next - 1 : j \in 1 .. Len(data)
      BY <1>1, <2>3, <2>4
    <3>2. QED
      BY <1>2, <3>1
  <2>5. next <= Len(data) => next \in 1 .. Len(data)
    BY <1>1, <2>3
  <2>6. next <= Len(data) => (next \in Leads(data) <=> ~ IsContinuation(data[next]))
    BY <1>2, <2>5
  <2>7. WholeTo(data, i, next) <=>
          /\ next <= len + 1
          /\ \A j \in i + 1 .. next - 1 : j \notin Leads(data)
          /\ next <= len => next \in Leads(data)
    BY <2>4, <2>6 DEF WholeTo, len
  <2>8. QED
    BY <2>7 DEF WholeAt, next
<1>6. QED
  BY <1>2, <1>3, <1>4, <1>5 DEF Whole, WholeCharacters

(* Erasing keeps what is before the last character as it is: no character  *)
(* before it reaches beyond its beginning.                                 *)
LEMMA EraseKeepsWhole ==
  ASSUME data \in Seq(Byte), Whole, search_remove_last_uft8_character
  PROVE  Whole'
<1>1. Len(data) \in Nat /\ DOMAIN data = 1 .. Len(data)
  BY LenProperties
<1>2. CASE Leads(data) = {}
  BY <1>2, EraseLemma DEF Whole, WholeAt
<1>3. CASE Leads(data) # {}
  <2>1. PICK last \in Leads(data) :
          /\ \A j \in Leads(data) : j <= last
          /\ Len(data') = last - 1
          /\ \A i \in 1 .. last - 1 : data'[i] = data[i]
    BY <1>3, EraseLemma
  <2>2. data' \in Seq(Byte)
    BY EraseLemma
  <2>3. last \in 1 .. Len(data) /\ ~ IsContinuation(data[last])
    BY <1>1 DEF Leads
  <2>4. data' # << >> => ~ IsContinuation(data'[1])
    <3>1. SUFFICES ASSUME data' # << >> PROVE ~ IsContinuation(data'[1])
      OBVIOUS
    <3>2. Len(data') >= 1
      BY <2>2, <3>1, EmptySeq
    <3>3. 1 \in 1 .. last - 1 /\ data # << >>
      BY <1>1, <2>1, <2>3, <3>2
    <3>4. QED
      BY <2>1, <3>3 DEF Whole
  <2>5. ASSUME NEW i \in 1 .. Len(data'), ~ IsContinuation(data'[i])
        PROVE  WholeAt(i)'
    <3> DEFINE next == i + Width(data[i])
    <3>1. i \in 1 .. last - 1 /\ i \in 1 .. Len(data) /\ data'[i] = data[i]
      BY <2>1, <2>3, <2>5
    <3>2. data[i] \in Byte
      BY <3>1, ElementOfSeq
    <3>3. next \in Nat /\ next > i
      BY <3>1, <3>2, WidthType
    <3>4. WholeTo(data, i, next)
      BY <2>5, <3>1 DEF Whole, WholeAt
    <3>5. (i + Width(data[i]))' = next
      BY <3>1
    <3> HIDE DEF next
    <3>6. /\ next <= Len(data) + 1
          /\ \A j \in i + 1 .. next - 1 : IsContinuation(data[j])
          /\ next <= Len(data) => ~ IsContinuation(data[next])
      BY <3>4 DEF WholeTo
    <3>7. next <= last
      <4>1. ~ (last \in i + 1 .. next - 1)
        BY <2>3, <3>6
      <4>2. QED
        BY <2>3, <3>1, <3>3, <4>1
    <3>8. next <= Len(data') + 1
      BY <2>1, <2>3, <3>7
    <3>9. \A j \in i + 1 .. next - 1 : IsContinuation(data'[j])
      <4>1. \A j \in i + 1 .. next - 1 : data'[j] = data[j]
        BY <2>1, <2>3, <3>1, <3>3, <3>7
      <4>2. QED
        BY <3>6, <4>1
    <3>10. next <= Len(data') => ~ IsContinuation(data'[next])
      <4>1. next <= Len(data') => next \in 1 .. last - 1 /\ next <= Len(data)
        BY <1>1, <2>1, <2>3, <3>1, <3>3
      <4>2. QED
        BY <2>1, <3>6, <4>1
    <3>11. WholeTo(data', i, next)
      BY <3>8, <3>9, <3>10 DEF WholeTo
    <3>12. QED
      BY <3>5, <3>11 DEF WholeAt
  <2>6. QED
    BY <2>4, <2>5 DEF Whole
<1>4. QED
  BY <1>2, <1>3

(* Typing adds a whole character at the end of whole characters.           *)
LEMMA TypeKeepsWhole ==
  ASSUME data \in Seq(Byte), Whole, NEW ch \in Codepoint,
         search_add_utf8_character(ch)
  PROVE  Whole'
<1> DEFINE n == utf8_chsize(ch)
           e == utf8_encode(ch)
<1>1. Len(data) \in Nat /\ BufSize \in Nat
  BY LenProperties, SearchAssumption
<1>2. CASE data' = data
  BY <1>2 DEF Whole, WholeAt
<1>3. CASE /\ data' \in Seq(Byte)
           /\ Len(data') = Len(data) + n
           /\ Len(data') + 1 < BufSize
           /\ \A i \in 1 .. Len(data) : data'[i] = data[i]
           /\ \A i \in 1 .. n : data'[Len(data) + i] = e[i]
  <2>1. /\ n \in 1 .. 4
        /\ ~ IsContinuation(e[1])
        /\ Width(e[1]) = n
        /\ \A i \in 2 .. n : IsContinuation(e[i])
    BY EncodeLemma
  <2> HIDE DEF n, e
  <2>2. data'[Len(data) + 1] = e[1]
    BY <1>3, <2>1
  <2>3. ~ IsContinuation(data'[1])
    <3>1. CASE data = << >>
      <4>1. Len(data) + 1 = 1
        BY <3>1, EmptySeq
      <4>2. QED
        BY <2>1, <2>2, <4>1
    <3>2. CASE data # << >>
      <4>1. 1 \in 1 .. Len(data)
        BY <1>1, <3>2, EmptySeq
      <4>2. QED
        BY <1>3, <3>2, <4>1 DEF Whole
    <3>3. QED
      BY <3>1, <3>2
  <2>4. ASSUME NEW i \in 1 .. Len(data), ~ IsContinuation(data'[i])
        PROVE  WholeAt(i)'
    <3> DEFINE next == i + Width(data[i])
    <3>1. data'[i] = data[i] /\ WholeTo(data, i, next)
      BY <1>3, <2>4 DEF Whole, WholeAt
    <3>2. data[i] \in Byte
      BY ElementOfSeq
    <3>3. next \in Nat /\ next > i
      BY <3>2, WidthType
    <3>4. (i + Width(data[i]))' = next
      BY <3>1
    <3> HIDE DEF next
    <3>5. /\ next <= Len(data) + 1
          /\ \A j \in i + 1 .. next - 1 : IsContinuation(data[j])
          /\ next <= Len(data) => ~ IsContinuation(data[next])
      BY <3>1 DEF WholeTo
    <3>6. next <= Len(data') + 1
      BY <1>1, <1>3, <2>1, <3>3, <3>5
    <3>7. \A j \in i + 1 .. next - 1 : IsContinuation(data'[j])
      <4>1. \A j \in i + 1 .. next - 1 : j \in 1 .. Len(data)
        BY <1>1, <3>3, <3>5
      <4>2. QED
        BY <1>3, <3>5, <4>1
    <3>8. ~ IsContinuation(data'[next])
      <4>1. CASE next <= Len(data)
        <5>1. next \in 1 .. Len(data)
          BY <1>1, <3>3, <4>1
        <5>2. QED
          BY <1>3, <3>5, <4>1, <5>1
      <4>2. CASE ~ (next <= Len(data))
        <5>1. next = Len(data) + 1
          BY <1>1, <3>3, <3>5, <4>2
        <5>2. QED
          BY <2>1, <2>2, <5>1
      <4>3. QED
        BY <4>1, <4>2
    <3>9. WholeTo(data', i, next)
      BY <3>6, <3>7, <3>8 DEF WholeTo
    <3>10. QED
      BY <3>4, <3>9 DEF WholeAt
  <2>5. \A j \in Len(data) + 2 .. Len(data) + n : IsContinuation(data'[j])
    <3> SUFFICES ASSUME NEW j \in Len(data) + 2 .. Len(data) + n
                 PROVE  IsContinuation(data'[j])
      OBVIOUS
    <3>1. j - Len(data) \in 2 .. n /\ j - Len(data) \in 1 .. n
          /\ Len(data) + (j - Len(data)) = j
      BY <1>1, <2>1
    <3>2. data'[j] = e[j - Len(data)]
      BY <1>3, <3>1
    <3>3. QED
      BY <2>1, <3>1, <3>2
  <2>6. ASSUME NEW i \in 1 .. Len(data'), i = Len(data) + 1
        PROVE  WholeAt(i)'
    <3>1. Width(data'[i]) = n
      BY <2>1, <2>2, <2>6
    <3>2. /\ i + n <= Len(data') + 1
          /\ ~ (i + n <= Len(data'))
      BY <1>1, <1>3, <2>1, <2>6
    <3> DEFINE next == i + n
    <3>3. (i + Width(data[i]))' = next
      BY <3>1
    <3>4. \A j \in i + 1 .. next - 1 : j \in Len(data) + 2 .. Len(data) + n
      BY <1>1, <2>1, <2>6
    <3>5. next <= Len(data') + 1 /\ ~ (next <= Len(data'))
      BY <3>2
    <3> HIDE DEF next, n, IsContinuation
    <3>6. \A j \in i + 1 .. next - 1 : IsContinuation(data'[j])
      BY <2>5, <3>4
    <3>7. WholeTo(data', i, next)
      BY <3>5, <3>6 DEF WholeTo
    <3>8. QED
      BY <3>3, <3>7 DEF WholeAt
  <2>7. ASSUME NEW i \in 1 .. Len(data'), ~ IsContinuation(data'[i])
        PROVE  WholeAt(i)'
    <3>1. i \in 1 .. Len(data) \/ i = Len(data) + 1
          \/ i \in Len(data) + 2 .. Len(data) + n
      BY <1>1, <1>3, <2>1, <2>7
    <3>2. QED
      BY <2>4, <2>5, <2>6, <2>7, <3>1
  <2>8. QED
    BY <2>3, <2>7 DEF Whole
<1>4. QED
  BY <1>1, <1>2, <1>3, TypeLemma

(* The search buffer always holds whole characters: BackSpace never leaves *)
(* half of one behind, and a character that is too long for what is left   *)
(* of the array is dropped, not cut.                                       *)
THEOREM NoSplitCharacters == Spec => []WholeCharacters
<1>1. Init => Whole
  BY EmptySeq DEF Init, Whole
<1>2. TypeOK /\ Whole /\ [Next]_data => Whole'
  BY EraseKeepsWhole, TypeKeepsWhole DEF TypeOK, Next, Byte, Whole, WholeAt
<1>3. TypeOK /\ Whole => WholeCharacters
  BY WholeIsWholeCharacters DEF TypeOK, Byte
<1>4. Spec => []TypeOK
  BY Bounded, PTL
<1>5. QED
  BY <1>1, <1>2, <1>3, <1>4, PTL DEF Spec

Before(S, i) == {j \in S : j < i}

(* The rank of a member of a finite set of numbers tells it from the       *)
(* others, and there is one of each rank.                                  *)
LEMMA RankFacts ==
  ASSUME NEW S \in SUBSET Nat, IsFiniteSet(S)
  PROVE  /\ Cardinality(S) \in Nat
         /\ \A i, j \in S : RankIn(S, i) = RankIn(S, j) => i = j
         /\ \A i \in S : RankIn(S, i) + 1 \in 1 .. Cardinality(S)
         /\ \A k \in 1 .. Cardinality(S) : \E i \in S : RankIn(S, i) = k - 1
<1>1. Cardinality(S) \in Nat
  BY FS_CardinalityType
<1>2. \A i : IsFiniteSet(Before(S, i)) /\ RankIn(S, i) \in Nat
  <2>1. \A i : Before(S, i) \subseteq S
    BY DEF Before
  <2>2. \A i : IsFiniteSet(Before(S, i))
    BY <2>1, FS_Subset
  <2>3. QED
    BY <2>2, FS_CardinalityType DEF RankIn, Before
<1>3. ASSUME NEW i \in S, NEW j \in S, i < j PROVE RankIn(S, i) < RankIn(S, j)
  <2>1. Before(S, i) \subseteq Before(S, j) \ {i}
    <3> SUFFICES ASSUME NEW h \in S, h < i PROVE h < j /\ h # i
      BY DEF Before
    <3>1. h \in Nat /\ i \in Nat /\ j \in Nat
      OBVIOUS
    <3>2. QED
      BY <1>3, <3>1
  <2>2. i \in Before(S, j)
    BY <1>3 DEF Before
  <2>3. /\ IsFiniteSet(Before(S, j) \ {i})
        /\ Cardinality(Before(S, j) \ {i}) = Cardinality(Before(S, j)) - 1
    BY <1>2, <2>2, FS_RemoveElement
  <2>4. Cardinality(Before(S, i)) <= Cardinality(Before(S, j) \ {i})
    BY <2>1, <2>3, FS_Subset
  <2>5. QED
    <3>1. /\ RankIn(S, i) = Cardinality(Before(S, i))
          /\ RankIn(S, j) = Cardinality(Before(S, j))
      BY DEF RankIn, Before
    <3>2. QED
      BY <1>2, <2>3, <2>4, <3>1
<1>4. ASSUME NEW i \in S, NEW j \in S, RankIn(S, i) = RankIn(S, j) PROVE i = j
  <2>1. i \in Nat /\ j \in Nat /\ RankIn(S, i) \in Nat
    BY <1>2
  <2>2. ~ (i < j) /\ ~ (j < i)
    BY <1>3, <1>4, <2>1
  <2>3. QED
    BY <2>1, <2>2
<1>5. ASSUME NEW i \in S PROVE RankIn(S, i) + 1 \in 1 .. Cardinality(S)
  <2>1. Before(S, i) \subseteq S \ {i}
    BY DEF Before
  <2>2. IsFiniteSet(S \ {i}) /\ Cardinality(S \ {i}) = Cardinality(S) - 1
    BY FS_RemoveElement
  <2>3. Cardinality(Before(S, i)) <= Cardinality(S \ {i})
    BY <2>1, <2>2, FS_Subset
  <2>4. QED
    <3>1. RankIn(S, i) = Cardinality(Before(S, i)) /\ RankIn(S, i) \in Nat
      BY <1>2 DEF RankIn, Before
    <3>2. QED
      BY <1>1, <2>2, <2>3, <3>1
<1> DEFINE N == 1 .. Cardinality(S)
           place == [i \in S |-> RankIn(S, i) + 1]
<1>6. place \in Injection(S, N)
  <2>1. place \in [S -> N]
    BY <1>5
  <2>2. \A i, j \in S : place[i] = place[j] => i = j
    <3> SUFFICES ASSUME NEW i \in S, NEW j \in S, place[i] = place[j] PROVE i = j
      OBVIOUS
    <3>1. RankIn(S, i) + 1 = RankIn(S, j) + 1 /\ RankIn(S, i) \in Nat /\ RankIn(S, j) \in Nat
      BY <1>2
    <3>2. RankIn(S, i) = RankIn(S, j)
      BY <3>1
    <3>3. QED
      BY <1>4, <3>2
  <2> HIDE DEF place
  <2>3. QED
    BY <2>1, <2>2 DEF Injection, IsInjective
<1>7. IsFiniteSet(N) /\ Cardinality(N) = Cardinality(S)
  BY <1>1, FS_Interval
<1>8. place \in Surjection(S, N)
  <2> HIDE DEF place, N
  <2>1. QED
    BY <1>6, <1>7, FS_Injection
<1>9. ASSUME NEW k \in N PROVE \E i \in S : RankIn(S, i) = k - 1
  <2>1. PICK i \in S : place[i] = k
    BY <1>8 DEF Surjection
  <2>2. RankIn(S, i) + 1 = k /\ RankIn(S, i) \in Nat
    BY <1>2, <2>1
  <2>3. QED
    BY <2>2
<1>10. QED
  BY <1>1, <1>4, <1>5, <1>9

(* The positions at which characters begin, as a set of numbers. *)
LEMMA LeadsFacts ==
  ASSUME NEW buf \in Seq(Byte)
  PROVE  /\ Len(buf) \in Nat
         /\ Leads(buf) = {i \in 1 .. Len(buf) : ~ IsContinuation(buf[i])}
         /\ Leads(buf) \in SUBSET Nat
         /\ IsFiniteSet(Leads(buf))
         /\ Cardinality(Leads(buf)) \in Nat
<1>1. Len(buf) \in Nat /\ DOMAIN buf = 1 .. Len(buf)
  BY LenProperties
<1>2. Leads(buf) = {i \in 1 .. Len(buf) : ~ IsContinuation(buf[i])}
  BY <1>1 DEF Leads
<1>3. Leads(buf) \subseteq 1 .. Len(buf) /\ IsFiniteSet(1 .. Len(buf))
  BY <1>1, <1>2, FS_Interval
<1>4. IsFiniteSet(Leads(buf))
  BY <1>3, FS_Subset
<1>5. QED
  BY <1>1, <1>2, <1>3, <1>4, FS_CardinalityType

(* Whole, of any buffer. *)
WholeBuffer(buf) ==
  /\ buf # << >> => ~ IsContinuation(buf[1])
  /\ \A i \in 1 .. Len(buf) :
       ~ IsContinuation(buf[i]) => WholeTo(buf, i, i + Width(buf[i]))

(* The values of groups of two, three and four bytes. *)
Group2(a, b) == (a - 192) * 64 + (b - 128)
Group3(a, b, c) == (a - 224) * 4096 + (b - 128) * 64 + (c - 128)
Group4(a, b, c, d) ==
  (a - 240) * 262144 + (b - 128) * 4096 + (c - 128) * 64 + (d - 128)

LEMMA GroupsAreIntegers ==
  ASSUME NEW a \in Int, NEW b \in Int, NEW c \in Int
  PROVE  /\ Group2(a, b) \in Int /\ Group3(a, b, c) \in Int
         /\ \A d \in Int : Group4(a, b, c, d) \in Int
BY SMT DEF Group2, Group3, Group4

(* DecodeAt, by the width that the first byte announces. *)
LEMMA DecodeCases ==
  ASSUME NEW buf, NEW i
  PROVE  /\ Width(buf[i]) = 1 => DecodeAt(buf, i) = buf[i]
         /\ Width(buf[i]) = 2 => DecodeAt(buf, i) = Group2(buf[i], buf[i + 1])
         /\ Width(buf[i]) = 3 =>
              DecodeAt(buf, i) = Group3(buf[i], buf[i + 1], buf[i + 2])
         /\ Width(buf[i]) = 4 =>
              DecodeAt(buf, i) = Group4(buf[i], buf[i + 1], buf[i + 2], buf[i + 3])
<1>1. CASE Width(buf[i]) = 1
  BY <1>1, SMT DEF DecodeAt
<1>2. CASE Width(buf[i]) = 2
  BY <1>2, SMT DEF DecodeAt, Group2
<1>3. CASE Width(buf[i]) = 3
  BY <1>3, SMT DEF DecodeAt, Group3
<1>4. CASE Width(buf[i]) = 4
  BY <1>4, SMT DEF DecodeAt, Group4
<1>5. QED
  BY <1>1, <1>2, <1>3, <1>4

(* Decoding a whole character needs its own bytes only. *)
LEMMA DecodeFacts ==
  ASSUME NEW buf \in Seq(Byte), WholeBuffer(buf), NEW i \in Leads(buf)
  PROVE  /\ i \in 1 .. Len(buf)
         /\ Width(buf[i]) \in 1 .. 4
         /\ i + Width(buf[i]) <= Len(buf) + 1
         /\ DecodeAt(buf, i) \in Int
         /\ \A other :
              (\A j \in 0 .. Width(buf[i]) - 1 : other[i + j] = buf[i + j])
                => DecodeAt(other, i) = DecodeAt(buf, i)
<1>1. Len(buf) \in Nat /\ i \in 1 .. Len(buf) /\ ~ IsContinuation(buf[i])
  BY LeadsFacts
<1>2. \A j \in 1 .. Len(buf) : buf[j] \in Byte
  BY ElementOfSeq
<1>3. Width(buf[i]) \in 1 .. 4
  BY <1>1, <1>2, WidthType
<1>4. i + Width(buf[i]) <= Len(buf) + 1
  BY <1>1 DEF WholeBuffer, WholeTo
<1>5. \A j \in 0 .. Width(buf[i]) - 1 : buf[i + j] \in Int
  <2>1. \A j \in 0 .. Width(buf[i]) - 1 : i + j \in 1 .. Len(buf)
    BY <1>1, <1>3, <1>4
  <2>2. \A j \in 0 .. Width(buf[i]) - 1 : buf[i + j] \in Byte
    BY <1>2, <2>1
  <2>3. \A b \in Byte : b \in Int
    BY DEF Byte
  <2>4. QED
    BY <2>2, <2>3
<1>6. i + 0 = i
  BY <1>1
<1>7. DecodeAt(buf, i) \in Int
  <2>1. /\ buf[i] \in Int
        /\ Width(buf[i]) >= 2 => buf[i + 1] \in Int
        /\ Width(buf[i]) >= 3 => buf[i + 2] \in Int
        /\ Width(buf[i]) >= 4 => buf[i + 3] \in Int
    BY <1>3, <1>5, <1>6, SMT
  <2>2. PICK x \in Int : x = buf[i]
    BY <2>1
  <2>3. CASE Width(buf[i]) = 1
    BY <2>1, <2>3, DecodeCases
  <2>4. CASE Width(buf[i]) = 2
    <3>1. DecodeAt(buf, i) = Group2(x, buf[i + 1])
      BY <2>2, <2>4, DecodeCases
    <3>2. buf[i + 1] \in Int
      BY <2>1, <2>4
    <3>3. QED
      BY <3>1, <3>2, GroupsAreIntegers
  <2>5. CASE Width(buf[i]) = 3
    <3>1. DecodeAt(buf, i) = Group3(x, buf[i + 1], buf[i + 2])
      BY <2>2, <2>5, DecodeCases
    <3>2. buf[i + 1] \in Int /\ buf[i + 2] \in Int
      BY <2>1, <2>5
    <3>3. QED
      BY <3>1, <3>2, GroupsAreIntegers
  <2>6. CASE Width(buf[i]) = 4
    <3>1. DecodeAt(buf, i) = Group4(x, buf[i + 1], buf[i + 2], buf[i + 3])
      BY <2>2, <2>6, DecodeCases
    <3>2. PICK y \in Int, z \in Int, t \in Int :
            y = buf[i + 1] /\ z = buf[i + 2] /\ t = buf[i + 3]
      BY <2>1, <2>6
    <3>3. Group4(x, y, z, t) \in Int
      BY GroupsAreIntegers
    <3>4. QED
      BY <3>1, <3>2, <3>3
  <2>7. QED
    BY <1>3, <2>3, <2>4, <2>5, <2>6
<1>8. ASSUME NEW other,
             \A j \in 0 .. Width(buf[i]) - 1 : other[i + j] = buf[i + j]
      PROVE  DecodeAt(other, i) = DecodeAt(buf, i)
  <2>1. other[i] = buf[i]
    BY <1>3, <1>6, <1>8
  <2>2. /\ Width(buf[i]) = 2 => other[i + 1] = buf[i + 1]
        /\ Width(buf[i]) = 3 => other[i + 1] = buf[i + 1] /\ other[i + 2] = buf[i + 2]
        /\ Width(buf[i]) = 4 => /\ other[i + 1] = buf[i + 1]
                                /\ other[i + 2] = buf[i + 2]
                                /\ other[i + 3] = buf[i + 3]
    BY <1>8
  <2>3. QED
    BY <1>3, <2>1, <2>2, DecodeCases, SMT
<1>9. QED
  BY <1>1, <1>3, <1>4, <1>7, <1>8

(* Decoding an encoding yields the code point. *)
LEMMA DecodeEncode ==
  ASSUME NEW ch \in Codepoint, NEW buf, NEW i \in Nat,
         \A j \in 1 .. utf8_chsize(ch) : buf[i + j] = utf8_encode(ch)[j]
  PROVE  DecodeAt(buf, i + 1) = ch
<1> DEFINE n == utf8_chsize(ch)
           a == ch \div 64
           b == ch \div 4096
           c == ch \div 262144
           p == buf[i + 1]
<1>1. ch \in Nat /\ 0 < ch /\ ch < 1114112
  BY SearchAssumption, SMT DEF Unicode
<1>2. n \in 1 .. 4 /\ Width(p) = n
  <2>1. n \in 1 .. 4 /\ Width(utf8_encode(ch)[1]) = n
    BY EncodeLemma
  <2>2. p = utf8_encode(ch)[1]
    BY <2>1
  <2>3. QED
    BY <2>1, <2>2
<1>3. \A j \in 1 .. n : buf[i + j] = IF j = 1 THEN first(n) + Shift(ch, n - 1)
                                     ELSE 128 + (Shift(ch, n - j) % 64)
  BY DEF utf8_encode
<1>4. /\ (i + 1) + 1 = i + 2
      /\ (i + 1) + 2 = i + 3
      /\ (i + 1) + 3 = i + 4
  OBVIOUS
<1>5. /\ a \in Nat /\ ch = 64 * a + (ch % 64) /\ ch % 64 \in 0 .. 63
      /\ b \in Nat /\ a = 64 * b + (a % 64) /\ a % 64 \in 0 .. 63
      /\ c \in Nat /\ b = 64 * c + (b % 64) /\ b % 64 \in 0 .. 63
  BY <1>1, SMT
<1> HIDE DEF n
<1>6. CASE n = 1
  <2>1. p = ch
    BY <1>1, <1>3, <1>6, SMT DEF first, Shift
  <2>2. QED
    BY <1>2, <1>6, <2>1, DecodeCases, SMT
<1>7. CASE n = 2
  <2>1. p = 192 + a /\ buf[i + 2] = 128 + (ch % 64)
    BY <1>3, <1>7, SMT DEF first, Shift
  <2>2. DecodeAt(buf, i + 1) = Group2(p, buf[i + 2])
    BY <1>2, <1>4, <1>7, DecodeCases, SMT
  <2>3. Group2(p, buf[i + 2]) = ch
    <3> HIDE DEF a, p
    <3>1. QED
      BY <1>1, <1>5, <2>1, SMT DEF Group2
  <2>4. QED
    BY <2>2, <2>3
<1>8. CASE n = 3
  <2>1. p = 224 + b /\ buf[i + 2] = 128 + (a % 64) /\ buf[i + 3] = 128 + (ch % 64)
    BY <1>3, <1>8, SMT DEF first, Shift
  <2>2. DecodeAt(buf, i + 1) = Group3(p, buf[i + 2], buf[i + 3])
    BY <1>2, <1>4, <1>8, DecodeCases, SMT
  <2>3. Group3(p, buf[i + 2], buf[i + 3]) = ch
    <3> HIDE DEF a, b, p
    <3>1. QED
      BY <1>1, <1>5, <2>1, SMT DEF Group3
  <2>4. QED
    BY <2>2, <2>3
<1>9. CASE n = 4
  <2>1. /\ p = 240 + c /\ buf[i + 2] = 128 + (b % 64)
        /\ buf[i + 3] = 128 + (a % 64) /\ buf[i + 4] = 128 + (ch % 64)
    BY <1>3, <1>9, SMT DEF first, Shift
  <2>2. DecodeAt(buf, i + 1) = Group4(p, buf[i + 2], buf[i + 3], buf[i + 4])
    BY <1>2, <1>4, <1>9, DecodeCases, SMT
  <2>3. Group4(p, buf[i + 2], buf[i + 3], buf[i + 4]) = ch
    <3> HIDE DEF a, b, c, p
    <3>1. QED
      BY <1>1, <1>5, <2>1, SMT DEF Group4
  <2>4. QED
    BY <2>2, <2>3
<1>10. QED
  BY <1>2, <1>6, <1>7, <1>8, <1>9

(* The characters are those that the bytes at the leads stand for. *)
LEMMA CharacterAt ==
  ASSUME NEW buf \in Seq(Byte), WholeBuffer(buf)
  PROVE  /\ Len(CharactersOf(buf)) = Cardinality(Leads(buf))
         /\ CharactersOf(buf) \in Seq(Int)
         /\ \A k \in 1 .. Cardinality(Leads(buf)), i \in Leads(buf) :
              RankIn(Leads(buf), i) = k - 1
                => CharactersOf(buf)[k] = DecodeAt(buf, i)
<1> DEFINE L == Leads(buf)
           n == Cardinality(L)
           C == CharactersOf(buf)
           begin(k) == CHOOSE i \in L : RankIn(L, i) = k - 1
<1>1. /\ n \in Nat
      /\ \A i, j \in L : RankIn(L, i) = RankIn(L, j) => i = j
      /\ \A k \in 1 .. n : \E i \in L : RankIn(L, i) = k - 1
  BY LeadsFacts, RankFacts
<1>2. C = [k \in 1 .. n |-> DecodeAt(buf, begin(k))]
  BY DEF CharactersOf
<1>3. \A k \in 1 .. n : begin(k) \in L /\ RankIn(L, begin(k)) = k - 1
  BY <1>1
<1> HIDE DEF begin
<1>4. \A k \in 1 .. n : C[k] = DecodeAt(buf, begin(k))
  BY <1>2
<1>5. \A k \in 1 .. n : DecodeAt(buf, begin(k)) \in Int
  BY <1>3, DecodeFacts
<1>6. C \in [1 .. n -> Int]
  BY <1>2, <1>5
<1>7. C \in Seq(Int) /\ Len(C) = n
  BY <1>1, <1>6
<1>8. \A k \in 1 .. n, i \in L : RankIn(L, i) = k - 1 => C[k] = DecodeAt(buf, i)
  BY <1>1, <1>3, <1>4
<1>9. QED
  BY <1>7, <1>8

(* One more character at the end of a buffer is one more at the end of the *)
(* text.                                                                   *)
LEMMA OneMore ==
  ASSUME NEW short \in Seq(Byte), NEW long \in Seq(Byte),
         WholeBuffer(short), WholeBuffer(long),
         Len(short) < Len(long),
         \A i \in 1 .. Len(short) : long[i] = short[i],
         Leads(long) = Leads(short) \cup {Len(short) + 1}
  PROVE  CharactersOf(long) =
           Append(CharactersOf(short), DecodeAt(long, Len(short) + 1))
<1> DEFINE S == Leads(short)
           L == Leads(long)
           n == Cardinality(S)
           end == Len(short) + 1
           C == CharactersOf(short)
           D == CharactersOf(long)
<1>1. /\ Len(short) \in Nat /\ Len(long) \in Nat
      /\ S \in SUBSET Nat /\ L \in SUBSET Nat
      /\ \A i \in S : i \in 1 .. Len(short)
      /\ IsFiniteSet(S) /\ IsFiniteSet(L) /\ n \in Nat
  BY LeadsFacts
<1>2. end \notin S /\ L = S \cup {end} /\ end \in L
  BY <1>1
<1>3. Cardinality(L) = n + 1
  BY <1>1, <1>2, FS_AddElement
<1>4. \A i \in S : {j \in L : j < i} = {j \in S : j < i}
  BY <1>1
<1>5. {j \in L : j < end} = S
  BY <1>1
<1>6. RankIn(L, end) = n /\ \A i \in S : RankIn(L, i) = RankIn(S, i)
  BY <1>4, <1>5 DEF RankIn
<1>7. /\ C \in Seq(Int) /\ Len(C) = n
      /\ D \in Seq(Int) /\ Len(D) = n + 1
  BY <1>3, CharacterAt
<1>8. D[n + 1] = DecodeAt(long, end)
  <2>1. n + 1 \in 1 .. Cardinality(L) /\ RankIn(L, end) = (n + 1) - 1
    BY <1>1, <1>3, <1>6
  <2>2. QED
    BY <1>2, <2>1, CharacterAt
<1>9. ASSUME NEW k \in 1 .. n PROVE D[k] = C[k]
  <2>1. PICK i \in S : RankIn(S, i) = k - 1
    BY <1>1, RankFacts
  <2>2. C[k] = DecodeAt(short, i)
    BY <2>1, CharacterAt
  <2>3. i \in L /\ RankIn(L, i) = k - 1 /\ k \in 1 .. Cardinality(L)
    <3>1. k \in 1 .. n + 1
      BY <1>1
    <3>2. QED
      BY <1>2, <1>3, <1>6, <2>1, <3>1
  <2>4. D[k] = DecodeAt(long, i)
    BY <2>3, CharacterAt
  <2>5. /\ i \in 1 .. Len(short) /\ Width(short[i]) \in 1 .. 4
        /\ i + Width(short[i]) <= Len(short) + 1
    BY DecodeFacts
  <2>6. \A j \in 0 .. Width(short[i]) - 1 : i + j \in 1 .. Len(short)
    BY <1>1, <2>5
  <2>7. \A j \in 0 .. Width(short[i]) - 1 : long[i + j] = short[i + j]
    BY <2>6
  <2>8. DecodeAt(long, i) = DecodeAt(short, i)
    BY <2>7, DecodeFacts
  <2>9. QED
    BY <2>2, <2>4, <2>8
<1>10. DecodeAt(long, end) \in Int
  BY <1>2, DecodeFacts
<1> DEFINE x == DecodeAt(long, end)
<1> HIDE DEF C, D, n, x
<1>11. /\ Append(C, x) \in Seq(Int) /\ Len(Append(C, x)) = n + 1
       /\ Append(C, x)[n + 1] = x
       /\ \A k \in 1 .. n : Append(C, x)[k] = C[k]
  BY <1>7, <1>10, AppendProperties DEF x
<1>12. \A k \in 1 .. n + 1 : Append(C, x)[k] = D[k]
  <2>1. n \in Nat
    BY <1>1 DEF n
  <2>2. D[n + 1] = x
    BY <1>8 DEF x
  <2>3. \A k \in 1 .. n + 1 : k \in 1 .. n \/ k = n + 1
    BY <2>1
  <2>4. QED
    BY <1>9, <1>11, <2>2, <2>3
<1>13. D = Append(C, x)
  BY <1>7, <1>11, <1>12, SeqEqual
<1>14. QED
  BY <1>13 DEF C, D, x

(* The bytes of each character are as many as its code point needs.        *)
Minimal(buf) ==
  \A i \in Leads(buf) : utf8_chsize(DecodeAt(buf, i)) = Width(buf[i])

(* A character of the shorter buffer is the same one in the longer.        *)
LEMMA SameCharacter ==
  ASSUME NEW short \in Seq(Byte), NEW long \in Seq(Byte), WholeBuffer(short),
         \A i \in 1 .. Len(short) : long[i] = short[i],
         NEW i \in Leads(short)
  PROVE  DecodeAt(long, i) = DecodeAt(short, i) /\ Width(long[i]) = Width(short[i])
<1>1. /\ i \in 1 .. Len(short) /\ Width(short[i]) \in 1 .. 4
      /\ i + Width(short[i]) <= Len(short) + 1 /\ Len(short) \in Nat
  BY DecodeFacts, LeadsFacts
<1>2. \A j \in 0 .. Width(short[i]) - 1 : i + j \in 1 .. Len(short)
  BY <1>1
<1>3. \A j \in 0 .. Width(short[i]) - 1 : long[i + j] = short[i + j]
  BY <1>2
<1>4. QED
  BY <1>1, <1>3, DecodeFacts

LEMMA WholeOfData == Whole = WholeBuffer(data)
BY DEF Whole, WholeBuffer, WholeAt

(* BackSpace takes away the last character, if there is one, and all of    *)
(* its bytes.                                                              *)
LEMMA ErasesCharacter ==
  ASSUME data \in Seq(Byte), Whole, Minimal(data),
         search_remove_last_uft8_character
  PROVE  \/ data = << >> /\ data' = data
         \/ \E x : /\ CharactersOf(data') \in Seq(Int)
                   /\ x \in Int
                   /\ CharactersOf(data) = Append(CharactersOf(data'), x)
                   /\ Len(data) = Len(data') + utf8_chsize(x)
                   /\ Minimal(data')
<1>1. CASE Leads(data) = {}
  <2>1. data = << >>
    <3>1. SUFFICES ASSUME data # << >> PROVE FALSE
      OBVIOUS
    <3>2. 1 \in 1 .. Len(data) /\ ~ IsContinuation(data[1])
      BY <3>1, EmptySeq, LenProperties DEF Whole
    <3>3. QED
      BY <1>1, <3>2, LeadsFacts, WholeOfData
  <2>2. QED
    BY <1>1, <2>1, EraseLemma
<1>2. CASE Leads(data) # {}
  <2> PICK short : short = data'
    OBVIOUS
  <2>1. WholeBuffer(data) /\ WholeBuffer(short) /\ short \in Seq(Byte)
    <3>1. Whole'
      BY EraseKeepsWhole
    <3>2. (Whole = WholeBuffer(data))'
      BY DEF Whole, WholeBuffer, WholeAt
    <3>3. QED
      BY <3>1, <3>2, WholeOfData, EraseLemma
  <2>2. PICK last \in Leads(data) :
          /\ \A j \in Leads(data) : j <= last
          /\ Len(short) = last - 1
          /\ \A i \in 1 .. last - 1 : short[i] = data[i]
    BY <1>2, EraseLemma
  <2>3. /\ Len(data) \in Nat /\ Len(short) \in Nat
        /\ Leads(data) = {i \in 1 .. Len(data) : ~ IsContinuation(data[i])}
        /\ Leads(short) = {i \in 1 .. Len(short) : ~ IsContinuation(short[i])}
    BY <2>1, LeadsFacts
  <2>4. last \in 1 .. Len(data) /\ Len(short) < Len(data) /\ Len(short) + 1 = last
    BY <2>2, <2>3
  <2>5. \A i \in 1 .. Len(short) : data[i] = short[i]
    BY <2>2
  <2>6. Leads(data) = Leads(short) \cup {Len(short) + 1}
    <3>1. ASSUME NEW i \in Leads(data), i # last PROVE i \in Leads(short)
      <4>1. i <= last /\ i \in 1 .. Len(data) /\ ~ IsContinuation(data[i])
        BY <2>2, <2>3
      <4>2. i \in 1 .. Len(short)
        BY <2>3, <2>4, <3>1, <4>1
      <4>3. QED
        BY <2>3, <2>5, <4>1, <4>2
    <3>2. ASSUME NEW i \in Leads(short) PROVE i \in Leads(data)
      <4>1. i \in 1 .. Len(short) /\ ~ IsContinuation(short[i])
        BY <2>3
      <4>2. i \in 1 .. Len(data) /\ data[i] = short[i]
        BY <2>3, <2>4, <2>5, <4>1
      <4>3. QED
        BY <2>3, <4>1, <4>2
    <3>3. QED
      BY <2>2, <2>4, <3>1, <3>2
  <2>7. CharactersOf(data) = Append(CharactersOf(short), DecodeAt(data, Len(short) + 1))
    BY <2>1, <2>4, <2>5, <2>6, OneMore
  <2>8. CharactersOf(short) \in Seq(Int)
    BY <2>1, CharacterAt
  <2>9. DecodeAt(data, Len(short) + 1) \in Int
    BY <2>1, <2>6, DecodeFacts
  <2>10. last + Width(data[last]) = Len(data) + 1
    <3> DEFINE next == last + Width(data[last])
    <3>1. next \in Nat /\ next > last /\ WholeTo(data, last, next)
      <4>1. last \in Nat /\ Width(data[last]) \in 1 .. 4
        BY <2>1, <2>4, DecodeFacts
      <4>2. ~ IsContinuation(data[last])
        BY <2>3
      <4>3. QED
        BY <2>1, <2>4, <4>1, <4>2 DEF WholeBuffer
    <3>2. ~ (next <= Len(data))
      <4>1. SUFFICES ASSUME next <= Len(data) PROVE FALSE
        OBVIOUS
      <4>2. next \in 1 .. Len(data) /\ ~ IsContinuation(data[next])
        BY <2>4, <3>1, <4>1 DEF WholeTo
      <4>3. next \in Leads(data)
        BY <2>3, <4>2
      <4>4. QED
        BY <2>2, <2>4, <3>1, <4>3
    <3>3. QED
      BY <2>3, <3>1, <3>2 DEF WholeTo
  <2>11. Width(data[last]) = utf8_chsize(DecodeAt(data, last)) /\ Width(data[last]) \in Nat
    BY <2>1, DecodeFacts DEF Minimal
  <2>12. Len(data) = Len(short) + utf8_chsize(DecodeAt(data, Len(short) + 1))
    BY <2>3, <2>4, <2>10, <2>11
  <2>13. Minimal(short)
    <3> SUFFICES ASSUME NEW i \in Leads(short)
                 PROVE  utf8_chsize(DecodeAt(short, i)) = Width(short[i])
      BY DEF Minimal
    <3>1. DecodeAt(data, i) = DecodeAt(short, i) /\ Width(data[i]) = Width(short[i])
      BY <2>1, <2>5, SameCharacter
    <3>2. i \in Leads(data)
      BY <2>6
    <3>3. QED
      BY <3>1, <3>2 DEF Minimal
  <2>14. QED
    BY <2>7, <2>8, <2>9, <2>12, <2>13
<1>3. QED
  BY <1>1, <1>2

(* A character that is typed goes to the end of the text if there is room  *)
(* for its bytes, and is dropped if there is none.                         *)
LEMMA TypesCharacter ==
  ASSUME data \in Seq(Byte), Whole, Minimal(data), NEW ch \in Codepoint,
         search_add_utf8_character(ch)
  PROVE  \/ /\ utf8_chsize(ch) <= BufSize - 2 - Len(data)
            /\ CharactersOf(data') = Append(CharactersOf(data), ch)
            /\ Len(data') = Len(data) + utf8_chsize(ch)
            /\ Minimal(data')
         \/ utf8_chsize(ch) > BufSize - 2 - Len(data) /\ data' = data
<1> DEFINE n == utf8_chsize(ch)
<1>1. Len(data) \in Nat /\ BufSize \in Nat
  BY LenProperties, SearchAssumption
<1>2. n \in 1 .. 4
  BY EncodeLemma
<1>3. WholeBuffer(data)
  BY WholeOfData
<1>4. CASE len + n + 1 >= BufSize
  <2>1. n > BufSize - 2 - Len(data)
    BY <1>1, <1>2, <1>4 DEF len
  <2>2. QED
    BY <1>4, <2>1 DEF search_add_utf8_character
<1>5. CASE ~ (len + n + 1 >= BufSize)
  <2> PICK long : long = data'
    OBVIOUS
  <2>1. data' = data \o utf8_encode(ch)
    BY <1>5 DEF search_add_utf8_character
  <2>2. Len(data') # Len(data)
    <3>1. utf8_encode(ch) \in Seq(Byte) /\ Len(utf8_encode(ch)) = n
      BY EncodeLemma
    <3>2. Len(data') = Len(data) + n
      BY <2>1, <3>1, ConcatProperties
    <3>3. QED
      BY <1>1, <1>2, <3>2
  <2>3. /\ long \in Seq(Byte)
        /\ Len(long) = Len(data) + n
        /\ \A i \in 1 .. Len(data) : long[i] = data[i]
        /\ \A i \in 1 .. n : long[Len(data) + i] = utf8_encode(ch)[i]
    BY <1>1, <2>2, TypeLemma
  <2>4. WholeBuffer(long)
    <3>1. Whole'
      BY TypeKeepsWhole
    <3>2. (Whole = WholeBuffer(data))'
      BY DEF Whole, WholeBuffer, WholeAt
    <3>3. QED
      BY <3>1, <3>2
  <2>5. /\ Len(long) \in Nat
        /\ Leads(data) = {i \in 1 .. Len(data) : ~ IsContinuation(data[i])}
        /\ Leads(long) = {i \in 1 .. Len(long) : ~ IsContinuation(long[i])}
    BY <2>3, LeadsFacts
  <2>6. /\ ~ IsContinuation(long[Len(data) + 1])
        /\ \A i \in 2 .. n : IsContinuation(long[Len(data) + i])
    <3>1. /\ ~ IsContinuation(utf8_encode(ch)[1])
          /\ \A i \in 2 .. n : IsContinuation(utf8_encode(ch)[i])
      BY EncodeLemma
    <3>2. 1 \in 1 .. n /\ \A i \in 2 .. n : i \in 1 .. n
      BY <1>2
    <3> HIDE DEF n
    <3>3. QED
      BY <2>3, <3>1, <3>2
  <2> HIDE DEF n
  <2>7. Leads(long) = Leads(data) \cup {Len(data) + 1}
    <3>1. ASSUME NEW i \in Leads(long) PROVE i \in Leads(data) \cup {Len(data) + 1}
      <4>1. i \in 1 .. Len(long) /\ ~ IsContinuation(long[i])
        BY <2>5
      <4>2. CASE i \in 1 .. Len(data)
        BY <2>3, <2>5, <4>1, <4>2
      <4>3. CASE i = Len(data) + 1
        BY <4>3
      <4>4. CASE i - Len(data) \in 2 .. n
        <5>1. Len(data) + (i - Len(data)) = i
          BY <1>1, <4>1
        <5>2. IsContinuation(long[Len(data) + (i - Len(data))])
          BY <2>6, <4>4
        <5>3. QED
          BY <4>1, <5>1, <5>2
      <4>5. QED
        BY <1>1, <1>2, <2>3, <4>1, <4>2, <4>3, <4>4
    <3>2. ASSUME NEW i \in Leads(data) PROVE i \in Leads(long)
      <4>1. i \in 1 .. Len(data) /\ ~ IsContinuation(data[i])
        BY <2>5
      <4>2. i \in 1 .. Len(long) /\ long[i] = data[i]
        BY <1>1, <1>2, <2>3, <4>1
      <4>3. QED
        BY <2>5, <4>1, <4>2
    <3>3. Len(data) + 1 \in Leads(long)
      <4>1. Len(data) + 1 \in 1 .. Len(long)
        BY <1>1, <1>2, <2>3
      <4>2. QED
        BY <2>5, <2>6, <4>1
    <3>4. QED
      BY <3>1, <3>2, <3>3
  <2>8. Len(data) < Len(long)
    BY <1>1, <1>2, <2>3
  <2>9. CharactersOf(long) = Append(CharactersOf(data), DecodeAt(long, Len(data) + 1))
    BY <1>3, <2>3, <2>4, <2>7, <2>8, OneMore
  <2>10. DecodeAt(long, Len(data) + 1) = ch
    BY <1>1, <2>3, DecodeEncode DEF n
  <2>11. Minimal(long)
    <3>1. ASSUME NEW i \in Leads(data)
          PROVE  utf8_chsize(DecodeAt(long, i)) = Width(long[i])
      BY <1>3, <2>3, SameCharacter DEF Minimal
    <3>2. Width(long[Len(data) + 1]) = utf8_chsize(ch)
      <4>1. Width(utf8_encode(ch)[1]) = utf8_chsize(ch)
        BY EncodeLemma
      <4>2. long[Len(data) + 1] = utf8_encode(ch)[1]
        BY <1>2, <2>3
      <4>3. QED
        BY <4>1, <4>2
    <3>3. QED
      BY <2>7, <2>10, <3>1, <3>2 DEF Minimal
  <2>12. n <= BufSize - 2 - Len(data)
    BY <1>1, <1>2, <1>5 DEF len
  <2>13. QED
    BY <2>3, <2>9, <2>10, <2>11, <2>12 DEF n
<1>6. QED
  BY <1>4, <1>5

(* The empty buffer stands for no character.                               *)
LEMMA NoCharacters ==
  ASSUME data = << >>
  PROVE  CharactersOf(data) = << >> /\ Whole /\ Leads(data) = {}
<1>1. data \in Seq(Byte) /\ Len(data) = 0
  BY EmptySeq
<1>2. Whole
  BY <1>1 DEF Whole
<1>3. Leads(data) = {}
  <2>1. Leads(data) = {i \in 1 .. 0 : ~ IsContinuation(data[i])}
    BY <1>1, LeadsFacts
  <2>2. QED
    BY <2>1
<1>4. CharactersOf(data) \in Seq(Int) /\ Len(CharactersOf(data)) = 0
  BY <1>1, <1>2, <1>3, CharacterAt, WholeOfData, FS_EmptySet
<1>5. QED
  BY <1>2, <1>3, <1>4, EmptySeq

(* Append, undone.                                                         *)
LEMMA FrontOfAppend ==
  ASSUME NEW s \in Seq(Int), NEW x \in Int
  PROVE  /\ Append(s, x) # << >>
         /\ SubSeq(Append(s, x), 1, Len(Append(s, x)) - 1) = s
         /\ Append(s, x)[Len(Append(s, x))] = x
<1> DEFINE u == Append(s, x)
           t == SubSeq(u, 1, Len(s))
<1>1. /\ Len(u) = Len(s) + 1 /\ Len(s) \in Nat /\ u \in Seq(Int)
      /\ u[Len(s) + 1] = x
  BY AppendProperties, LenProperties
<1>2. u # << >>
  BY <1>1, EmptySeq
<1>3. \A k \in 1 .. Len(s) : u[k] = s[k] /\ u[k] \in Int
  BY AppendProperties, ElementOfSeq
<1>4. t \in Seq(Int) /\ Len(t) = Len(s) /\ \A k \in 1 .. Len(s) : t[k] = s[k]
  <2> HIDE DEF u
  <2>1. /\ SubSeq(u, 1, Len(s)) \in Seq(Int)
        /\ Len(SubSeq(u, 1, Len(s))) = Len(s)
        /\ \A k \in 1 .. Len(s) : SubSeq(u, 1, Len(s))[k] = u[k]
    BY <1>1, <1>3, SubSeqProperties
  <2>2. QED
    BY <1>3, <2>1
<1> HIDE DEF t
<1>5. t = s
  BY <1>4, SeqEqual
<1>6. Len(u) - 1 = Len(s)
  BY <1>1
<1>7. QED
  BY <1>1, <1>2, <1>5, <1>6 DEF t

(* A key is a step of the text, and leaves no character longer than it     *)
(* has to be.                                                              *)
LEMMA TextStep ==
  TypeOK /\ Whole /\ Minimal(data) /\ [KeyNext]_keyVars
    => /\ [Text!Next]_<< Characters, BufSize - 2 - len, key >>
       /\ Minimal(data)'
<1> SUFFICES ASSUME TypeOK, Whole, Minimal(data), [KeyNext]_keyVars
             PROVE  /\ [Text!Next]_<< Characters, BufSize - 2 - len, key >>
                    /\ Minimal(data')
  OBVIOUS
<1>1. data \in Seq(Byte) /\ Len(data) \in Nat /\ BufSize \in Nat
  BY LenProperties, SearchAssumption DEF TypeOK, Byte
<1>2. /\ Characters = CharactersOf(data) /\ Characters' = CharactersOf(data')
      /\ len = Len(data) /\ len' = Len(data')
  BY DEF Characters, len
<1>3. CASE UNCHANGED keyVars
  BY <1>2, <1>3 DEF keyVars
<1>4. CASE Erased
  <2>1. Text!Handle(Text!BackSpace) /\ search_remove_last_uft8_character
    BY <1>4 DEF Erased, Handled, Text!Handle, BackSpace, Text!BackSpace
  <2>2. CASE data = << >> /\ data' = data
    <3>1. Characters = << >>
      BY <1>2, <2>2, NoCharacters
    <3>2. Text!Erase
      BY <1>2, <2>1, <2>2, <3>1 DEF Text!Erase
    <3>3. QED
      BY <2>2, <3>2 DEF Text!Next
  <2>3. CASE \E x : /\ CharactersOf(data') \in Seq(Int)
                    /\ x \in Int
                    /\ CharactersOf(data) = Append(CharactersOf(data'), x)
                    /\ Len(data) = Len(data') + utf8_chsize(x)
                    /\ Minimal(data')
    <3>1. PICK x : /\ CharactersOf(data') \in Seq(Int) /\ x \in Int
                   /\ CharactersOf(data) = Append(CharactersOf(data'), x)
                   /\ Len(data) = Len(data') + utf8_chsize(x)
                   /\ Minimal(data')
      BY <2>3
    <3>2. PICK s \in Seq(Int) : s = CharactersOf(data')
      BY <3>1
    <3>3. /\ Append(s, x) # << >>
          /\ SubSeq(Append(s, x), 1, Len(Append(s, x)) - 1) = s
          /\ Append(s, x)[Len(Append(s, x))] = x
      BY <3>1, FrontOfAppend
    <3>4. /\ Characters # << >> /\ Characters' = Text!Front(Characters)
          /\ Text!Last(Characters) = x
      BY <1>2, <3>1, <3>2, <3>3 DEF Text!Front, Text!Last
    <3>5. BufSize - 2 - len' = (BufSize - 2 - len) + utf8_chsize(x)
      <4>1. utf8_chsize(x) \in Nat
        BY DEF utf8_chsize
      <4>2. Len(data') \in Nat
        BY <1>1, <2>1, EraseLemma, LenProperties
      <4>3. QED
        BY <1>1, <1>2, <3>1, <4>1, <4>2
    <3>6. Text!Erase
      BY <2>1, <3>4, <3>5 DEF Text!Erase
    <3>7. QED
      BY <3>1, <3>6 DEF Text!Next
  <2>4. QED
    BY <1>1, <2>1, <2>2, <2>3, ErasesCharacter
<1>5. ASSUME NEW ch \in Codepoint, Typed(ch)
      PROVE  Text!Next /\ Minimal(data')
  <2>1. Text!Handle(ch) /\ search_add_utf8_character(ch)
    BY <1>5 DEF Typed, Handled, Text!Handle
  <2>2. CASE /\ utf8_chsize(ch) <= BufSize - 2 - Len(data)
             /\ CharactersOf(data') = Append(CharactersOf(data), ch)
             /\ Len(data') = Len(data) + utf8_chsize(ch)
             /\ Minimal(data')
    <3>1. utf8_chsize(ch) \in Nat
      BY DEF utf8_chsize
    <3>2. BufSize - 2 - len' = (BufSize - 2 - len) - utf8_chsize(ch)
      BY <1>1, <1>2, <2>2, <3>1
    <3>3. Text!Type(ch)
      BY <1>2, <2>1, <2>2, <3>2 DEF Text!Type
    <3>4. QED
      BY <2>2, <3>3 DEF Text!Next
  <2>3. CASE utf8_chsize(ch) > BufSize - 2 - Len(data) /\ data' = data
    <3>1. Text!Refuse(ch)
      BY <1>2, <2>1, <2>3 DEF Text!Refuse
    <3>2. QED
      BY <2>3, <3>1 DEF Text!Next
  <2>4. QED
    BY <1>1, <2>1, <2>2, <2>3, TypesCharacter
<1>6. QED
  BY <1>3, <1>4, <1>5 DEF KeyNext

(* The history does not restrict what the buffer does.                     *)
LEMMA KeysOnly == KeySpec => Spec
<1>1. KeyInit => Init
  BY DEF KeyInit
<1>2. [KeyNext]_keyVars => [Next]_data
  BY DEF KeyNext, keyVars, Erased, Typed, Next
<1>3. QED
  BY <1>1, <1>2, PTL DEF KeySpec, Spec

(* The search buffer is a line of text, edited at its end one whole        *)
(* character at a time, by every key that is given to it: a character that *)
(* is typed is appended, that very one, if and only if there is room for   *)
(* its bytes, and BackSpace takes away exactly the last character, if      *)
(* there is one, and gives back the room it took (search.c:35-57).         *)
THEOREM BufferIsText == KeySpec => ImplementsText
<1>1. KeyInit => Text!Init /\ Whole /\ Minimal(data)
  <2>1. SUFFICES ASSUME KeyInit PROVE Text!Init /\ Whole /\ Minimal(data)
    OBVIOUS
  <2>2. data = << >> /\ data \in Seq(Byte) /\ len = 0
    BY <2>1, EmptySeq DEF KeyInit, Init, len
  <2>3. Characters = << >> /\ Whole /\ Leads(data) = {}
    BY <2>2, NoCharacters DEF Characters
  <2>4. BufSize - 2 - len = BufSize - 2
    BY <2>2, SearchAssumption
  <2>5. QED
    BY <2>1, <2>3, <2>4
       DEF KeyInit, Text!Init, BackSpace, Text!BackSpace, Minimal
<1>2. TypeOK /\ Whole /\ [KeyNext]_keyVars => Whole'
  BY EraseKeepsWhole, TypeKeepsWhole
     DEF TypeOK, KeyNext, Erased, Typed, keyVars, Byte, Whole, WholeAt
<1>3. KeySpec => []TypeOK
  BY Bounded, KeysOnly, PTL
<1>4. QED
  BY <1>1, <1>2, <1>3, TextStep, PTL DEF KeySpec, ImplementsText, Text!Spec
=============================================================================
