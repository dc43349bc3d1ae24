-------------------------- MODULE UpdateFilesProofs -------------------------
(***************************************************************************)
(* What holds of the files of any release, over any number of attempts.    *)
(***************************************************************************)
EXTENDS UpdateFiles, NatLemmas, TLAPS

-----------------------------------------------------------------------------
(* Lists of files *)

Elements(s) == {s[i] : i \in 1..Len(s)}
NoRepeats(s) == \A i, j \in 1..Len(s) : s[i] = s[j] => i = j

\* A list without repetitions is as long as it has elements.
LEMMA DistinctCount ==
    ASSUME NEW s \in Seq(Files), NoRepeats(s)
    PROVE  Cardinality(Elements(s)) = Len(s)
<1>1. Len(s) \in Nat /\ s \in [1..Len(s) -> Elements(s)]
  BY DEF Elements
<1>2. s \in Bijection(1..Len(s), Elements(s))
  BY <1>1 DEF Bijection, Injection, Surjection, IsInjective, NoRepeats, Elements
<1>3. ExistsBijection(1..Len(s), Elements(s))
  BY <1>2 DEF ExistsBijection
<1>4. QED
  BY <1>1, <1>3, FS_CountingElements

\* A list that continues another one.
LEMMA ConcatFacts ==
    ASSUME NEW s \in Seq(Files), NEW t \in Seq(Files)
    PROVE  /\ s \o t \in Seq(Files)
           /\ Len(s) \in Nat /\ Len(t) \in Nat /\ Len(s \o t) = Len(s) + Len(t)
           /\ \A i \in 1..Len(s) : (s \o t)[i] = s[i]
           /\ \A i \in 1..Len(t) : (s \o t)[Len(s) + i] = t[i]
OBVIOUS

\* It has the elements of both, and none twice if they share none.
LEMMA ConcatElements ==
    ASSUME NEW s \in Seq(Files), NEW t \in Seq(Files)
    PROVE  /\ Elements(s \o t) = Elements(s) \cup Elements(t)
           /\ NoRepeats(s) /\ NoRepeats(t) /\ Elements(s) \cap Elements(t) = {}
                  => NoRepeats(s \o t)
<1> DEFINE st == s \o t
           n == Len(s)
<1>1. /\ n \in Nat /\ Len(t) \in Nat /\ Len(st) = n + Len(t)
      /\ \A i \in 1..n : st[i] = s[i]
      /\ \A i \in 1..Len(t) : st[n + i] = t[i]
  BY ConcatFacts
<1> HIDE DEF st
<1>2. \A i \in 1..Len(st) :
          \/ i \in 1..n /\ st[i] = s[i]
          \/ i - n \in 1..Len(t) /\ st[i] = t[i - n]
  <2> TAKE i \in 1..Len(st)
  <2>1. CASE i \in 1..n
    BY <1>1, <2>1
  <2>2. CASE i \notin 1..n
    <3>1. i - n \in 1..Len(t) /\ n + (i - n) = i
      BY <1>1, <2>2
    <3>2. st[n + (i - n)] = t[i - n]
      BY <1>1, <3>1
    <3>3. QED
      BY <3>1, <3>2
  <2>3. QED
    BY <2>1, <2>2
<1>3. Elements(st) = Elements(s) \cup Elements(t)
  <2>1. Elements(st) \subseteq Elements(s) \cup Elements(t)
    BY <1>2 DEF Elements
  <2>2. Elements(s) \subseteq Elements(st)
    BY <1>1 DEF Elements
  <2>3. ASSUME NEW i \in 1..Len(t) PROVE t[i] \in Elements(st)
    <3>1. n + i \in 1..Len(st)
      BY <1>1
    <3>2. QED
      BY <1>1, <3>1 DEF Elements
  <2>4. QED
    BY <2>1, <2>2, <2>3 DEF Elements
<1>4. ASSUME NoRepeats(s), NoRepeats(t), Elements(s) \cap Elements(t) = {}
      PROVE  NoRepeats(st)
  <2> SUFFICES ASSUME NEW i \in 1..Len(st), NEW j \in 1..Len(st), st[i] = st[j]
               PROVE  i = j
    BY DEF NoRepeats
  <2>1. \A k \in 1..n, l \in 1..Len(t) : s[k] # t[l]
    BY <1>4 DEF Elements
  <2>2. CASE i \in 1..n /\ st[i] = s[i] /\ j \in 1..n /\ st[j] = s[j]
    BY <1>4, <2>2 DEF NoRepeats
  <2>3. CASE /\ i - n \in 1..Len(t) /\ st[i] = t[i - n]
             /\ j - n \in 1..Len(t) /\ st[j] = t[j - n]
    <3>1. i - n = j - n
      BY <1>4, <2>3 DEF NoRepeats
    <3>2. QED
      BY <1>1, <3>1
  <2>4. QED
    BY <1>2, <2>1, <2>2, <2>3
<1>5. QED
  BY <1>3, <1>4 DEF st

\* The functions that are lists.
LEMMA FunctionIsList ==
    ASSUME NEW S, NEW k \in Nat, NEW f \in [1..k -> S]
    PROVE  f \in Seq(S) /\ Len(f) = k
OBVIOUS

\* A stretch of a list.
LEMMA StretchFacts ==
    ASSUME NEW s \in Seq(Files), NEW m \in 1..Len(s), NEW n \in m..Len(s)
    PROVE  /\ SubSeq(s, m, n) \in Seq(Files)
           /\ Elements(SubSeq(s, m, n)) = {s[i] : i \in m..n}
           /\ NoRepeats(s) => NoRepeats(SubSeq(s, m, n))
<1> DEFINE t == SubSeq(s, m, n)
<1>1. m \in Nat /\ n \in Nat /\ Len(s) \in Nat /\ 1 <= m /\ m <= n /\ n <= Len(s)
  OBVIOUS
<1>2. /\ t \in Seq(Files)
      /\ Len(t) = n - m + 1
      /\ \A i \in 1..n - m + 1 : t[i] = s[m + i - 1]
  <2>1. t = [i \in 1..n - m + 1 |-> s[m + i - 1]]
    BY <1>1
  <2>2. \A i \in 1..n - m + 1 : s[m + i - 1] \in Files
    BY <1>1
  <2>3. n - m + 1 \in Nat
    BY <1>1
  <2>4. t \in [1..n - m + 1 -> Files]
    BY <2>1, <2>2
  <2>5. \A i \in 1..n - m + 1 : t[i] = s[m + i - 1]
    BY <2>1
  <2> HIDE DEF t
  <2>6. t \in Seq(Files) /\ Len(t) = n - m + 1
    BY <2>3, <2>4, FunctionIsList
  <2>7. QED
    BY <2>5, <2>6
<1> HIDE DEF t
<1>3. \A i \in m..n : i - m + 1 \in 1..Len(t) /\ t[i - m + 1] = s[i]
  <2> TAKE i \in m..n
  <2>1. i - m + 1 \in 1..n - m + 1 /\ m + (i - m + 1) - 1 = i
    BY <1>1
  <2>2. QED
    BY <1>2, <2>1
<1>4. \A i \in 1..Len(t) : m + i - 1 \in m..n /\ t[i] = s[m + i - 1]
  BY <1>1, <1>2
<1>5. Elements(t) = {s[i] : i \in m..n}
  <2>1. ASSUME NEW i \in 1..Len(t) PROVE \E j \in m..n : t[i] = s[j]
    <3>1. m + i - 1 \in m..n /\ t[i] = s[m + i - 1]
      BY <1>4
    <3>2. QED
      BY <3>1
  <2>2. ASSUME NEW j \in m..n PROVE \E i \in 1..Len(t) : s[j] = t[i]
    <3>1. j - m + 1 \in 1..Len(t) /\ t[j - m + 1] = s[j]
      BY <1>3
    <3>2. QED
      BY <3>1
  <2>3. \A x : x \in Elements(t) <=> \E i \in 1..Len(t) : x = t[i]
    BY DEF Elements
  <2>4. \A x : x \in {s[i] : i \in m..n} <=> \E j \in m..n : x = s[j]
    OBVIOUS
  <2>5. \A x : x \in Elements(t) <=> x \in {s[i] : i \in m..n}
    BY <2>1, <2>2, <2>3, <2>4
  <2>6. QED
    BY <2>5
<1>6. ASSUME NoRepeats(s), NEW i \in 1..Len(t), NEW j \in 1..Len(t), t[i] = t[j]
      PROVE  i = j
  <2>1. m + i - 1 \in 1..Len(s) /\ m + j - 1 \in 1..Len(s) /\ s[m + i - 1] = s[m + j - 1]
    BY <1>1, <1>4, <1>6
  <2>2. m + i - 1 = m + j - 1
    BY <1>6, <2>1 DEF NoRepeats
  <2>3. QED
    BY <1>1, <1>2, <2>2
<1>7. QED
  BY <1>2, <1>5, <1>6 DEF t, NoRepeats

\* A list with one more element.
LEMMA AppendElements ==
    ASSUME NEW s \in Seq(Files), NEW e \in Files
    PROVE  /\ Append(s, e) \in Seq(Files)
           /\ Elements(Append(s, e)) = Elements(s) \cup {e}
           /\ NoRepeats(s) /\ e \notin Elements(s) => NoRepeats(Append(s, e))
<1> DEFINE t == Append(s, e)
           n == Len(s)
<1>1. /\ t \in Seq(Files) /\ n \in Nat /\ Len(t) = n + 1
      /\ \A i \in 1..n : t[i] = s[i]
      /\ t[n + 1] = e
  OBVIOUS
<1> HIDE DEF t
<1>2. \A i \in 1..Len(t) : (i \in 1..n /\ t[i] = s[i]) \/ (i = n + 1 /\ t[i] = e)
  BY <1>1
<1>3. Elements(t) = Elements(s) \cup {e}
  <2>1. n + 1 \in 1..Len(t) /\ \A i \in 1..n : i \in 1..Len(t)
    BY <1>1
  <2>2. QED
    BY <1>1, <1>2, <2>1 DEF Elements
<1>4. ASSUME NoRepeats(s), e \notin Elements(s) PROVE NoRepeats(t)
  BY <1>2, <1>4 DEF NoRepeats, Elements
<1>5. QED
  BY <1>1, <1>3, <1>4 DEF t

\* InOrder lists every file of a set once.
LEMMA InOrderFacts ==
    ASSUME NEW S \in SUBSET Files
    PROVE  /\ InOrder(S) \in Seq(Files)
           /\ Elements(InOrder(S)) = S
           /\ NoRepeats(InOrder(S))
<1> DEFINE Body(h) == [n \in Nat |->
               IF n = 0 THEN <<>>
               ELSE IF n \in S THEN Append(h[n - 1], n) ELSE h[n - 1]]
           upTo == CHOOSE h : h = Body(h)
           G == [p \in Seq(Files) \X Nat |->
                   IF p[2] + 1 \in S THEN Append(p[1], p[2] + 1) ELSE p[1]]
<1>1. InOrder(S) = upTo[NumFiles]
  BY DEF InOrder
<1>2. G \in [Seq(Files) \X Nat -> Seq(Files)]
  <2>1. ASSUME NEW p \in Seq(Files) \X Nat
        PROVE  (IF p[2] + 1 \in S THEN Append(p[1], p[2] + 1) ELSE p[1]) \in Seq(Files)
    <3>1. p[1] \in Seq(Files)
      OBVIOUS
    <3>2. CASE p[2] + 1 \in S
      BY <3>1, <3>2, AppendElements
    <3>3. CASE p[2] + 1 \notin S
      BY <3>1, <3>3
    <3>4. QED
      BY <3>2, <3>3
  <2>2. QED
    BY <2>1
<1>3. PICK f : f \in [Nat -> Seq(Files)] /\ f[0] = <<>> /\ \A k \in Nat : f[k + 1] = G[<<f[k], k>>]
  <2>1. <<>> \in Seq(Files)
    OBVIOUS
  <2> HIDE DEF G
  <2>2. \E f : Recursion(f, Seq(Files), G, <<>>)
    BY <1>2, <2>1, RecursionExists
  <2>3. QED
    BY <2>2 DEF Recursion
<1>4. f = Body(f)
  <2>1. ASSUME NEW n \in Nat, n # 0
        PROVE  f[n] = IF n \in S THEN Append(f[n - 1], n) ELSE f[n - 1]
    <3>1. n - 1 \in Nat /\ f[n - 1] \in Seq(Files) /\ f[(n - 1) + 1] = G[<<f[n - 1], n - 1>>]
      <4> HIDE DEF G
      <4>1. n - 1 \in Nat
        BY <2>1
      <4>2. QED
        BY <1>3, <4>1
    <3>2. (n - 1) + 1 = n
      OBVIOUS
    <3>3. QED
      BY <3>1, <3>2
  <2> HIDE DEF G
  <2>2. QED
    BY <1>3, <2>1
<1>5. upTo = Body(upTo)
  <2> HIDE DEF Body
  <2> QED BY <1>4
<1> DEFINE Good(k) == /\ upTo[k] \in Seq(Files)
                      /\ Elements(upTo[k]) = S \cap 1..k
                      /\ NoRepeats(upTo[k])
           T == {k \in Nat : ~Good(k)}
<1> HIDE DEF G, upTo
<1>6. /\ upTo[0] = <<>>
      /\ \A n \in Nat \ {0} :
            upTo[n] = IF n \in S THEN Append(upTo[n - 1], n) ELSE upTo[n - 1]
  BY <1>5
<1>7. T = {}
  <2>1. SUFFICES ASSUME T # {} PROVE FALSE
    OBVIOUS
  <2>2. PICK k \in T : \A y \in T : k <= y
    <3>1. T \subseteq Nat
      OBVIOUS
    <3> HIDE DEF T
    <3>2. QED
      BY <2>1, <3>1, LeastNat
  <2>3. k \in Nat /\ ~Good(k)
    OBVIOUS
  <2>4. k # 0
    <3>1. Good(0)
      BY <1>6 DEF Elements, NoRepeats
    <3>2. QED
      BY <2>3, <3>1
  <2>5. k - 1 \in Nat /\ k - 1 \notin T
    <3> HIDE DEF T
    <3> QED BY <2>2, <2>3, <2>4
  <2>6. Good(k - 1)
    BY <2>5
  <2>7. S \cap 1..k = (S \cap 1..k - 1) \cup (S \cap {k})
    BY <2>3, <2>4
  <2>8. CASE k \in S
    <3>1. upTo[k] = Append(upTo[k - 1], k)
      BY <1>6, <2>3, <2>4, <2>8
    <3>2. k \notin Elements(upTo[k - 1])
      BY <2>3, <2>6
    <3>3. Good(k)
      BY <2>6, <2>7, <2>8, <3>1, <3>2, AppendElements
    <3>4. QED
      BY <2>3, <3>3
  <2>9. CASE k \notin S
    <3>1. upTo[k] = upTo[k - 1]
      BY <1>6, <2>3, <2>4, <2>9
    <3>2. QED
      BY <2>3, <2>6, <2>7, <2>9, <3>1
  <2>10. QED
    BY <2>8, <2>9
<1>8. NumFiles \in Nat /\ S \cap 1..NumFiles = S
  BY FilesAssumption DEF Files
<1>9. Good(NumFiles)
  BY <1>7, <1>8
<1>10. QED
  <2> HIDE DEF Body
  <2> QED BY <1>1, <1>8, <1>9

-----------------------------------------------------------------------------
(* The inductive invariant *)

\* The phases in which the lists are made and the new files are verified.
Decided == phase \in {"confirming", "installing", "installed"}

\* What a session has not begun is as Leave and StartSession left it.
Beginning ==
    phase \in {"idle", "hashing"} =>
        /\ filesToUpdate = <<>> /\ filesToAsk = <<>>
        /\ confirmed = {} /\ declined = {} /\ editedLate = {}

\* HashFile works through files that nobody edits meanwhile.
HashesRight ==
    phase = "hashing" =>
        /\ pos # 0 /\ askIdx = 1
        /\ metaOld = metaDisk
        /\ \A f \in Files :
            /\ oldPath[f] <=> fs[f] # "none"
            /\ f < pos => realNew[f] = newFiles[f] /\ realOld[f] = fs[f]

\* The two lists share out the candidates, and the answers given so far are
\* those to the first files asked about.
Answered == {filesToAsk[i] : i \in 1..askIdx - 1}

ListsRight ==
    Decided =>
        /\ newFiles = metaNew
        /\ NoRepeats(filesToAsk)
        /\ Elements(filesToAsk) = {f \in Files : Candidate(f) /\ NeedToAsk(f)}
        /\ Elements(filesToUpdate) =
               {f \in Files : Candidate(f) /\ ~NeedToAsk(f)} \cup confirmed
        /\ confirmed \cap declined = {}
        /\ confirmed \cup declined =
               IF phase = "confirming" THEN Answered ELSE Elements(filesToAsk)

\* What the files are between the decision and the end: as they were hashed, as
\* the user edited them in the replace dialog, or replaced.
CopiesRight ==
    /\ editedLate \cap pristine = {}
    /\ copying => phase = "installing" /\ pos <= Len(filesToUpdate)
    /\ phase = "confirming" => pos = 0
    /\ Decided => \A f \in Files \ editedLate :
           phase = "confirming" \/ f \notin Elements(filesToUpdate) => fs[f] = realOld[f]
    /\ phase \in {"installing", "installed"} =>
           \A i \in 1..Len(filesToUpdate) :
               i < pos => fs[filesToUpdate[i]] = metaNew[filesToUpdate[i]]
    /\ phase = "installed" => pos > Len(filesToUpdate)

\* A file that was never edited is what the installed metadata says, or one of
\* the user's own that no update touches, until an installation is cut off.
AsInstalled(f, content, meta) ==
    content[f] = meta[f] \/ (kind[f] = "modifiable" /\ content[f] # "none")

PristineRight ==
    ~interrupted =>
        /\ phase # "installing" => \A f \in pristine : AsInstalled(f, fs, metaDisk)
        /\ Decided => \A f \in pristine : AsInstalled(f, realOld, metaOld)
        /\ phase = "installed" \/ (phase = "installing" /\ pos > 0) => metaDisk = metaNew

FilesInv ==
    /\ FilesTypeOK
    /\ NoRepeats(filesToUpdate)
    /\ Beginning
    /\ HashesRight
    /\ ListsRight
    /\ CopiesRight
    /\ PristineRight

-----------------------------------------------------------------------------
(* Initial states, and steps that end a session *)

\* The invariant holds before the first session.
LEMMA FilesInit_Inv == FilesInit => FilesInv
<1> SUFFICES ASSUME FilesInit PROVE FilesInv
  OBVIOUS
<1>1. FilesTypeOK
  <2>1. <<>> \in Seq(Files)
    OBVIOUS
  <2>2. metaDisk \in [Files -> Contents] /\ fs \in [Files -> Contents]
    BY DEF FilesInit, Contents, Shipped
  <2>3. NoFile \in [Files -> Contents] /\ [f \in Files |-> FALSE] \in [Files -> BOOLEAN]
    BY DEF NoFile, Contents
  <2>4. pristine \subseteq Files /\ confirmed \subseteq Files /\ declined \subseteq Files
        /\ editedLate \subseteq Files
    BY DEF FilesInit
  <2>5. /\ metaOld \in [Files -> Contents] /\ newFiles \in [Files -> Contents]
        /\ realOld \in [Files -> Contents] /\ realNew \in [Files -> Contents]
        /\ oldPath \in [Files -> BOOLEAN]
        /\ filesToAsk \in Seq(Files) /\ filesToUpdate \in Seq(Files)
    BY <2>1, <2>3 DEF FilesInit
  <2>6. /\ kind \in [Files -> Kinds] /\ metaNew \in [Files -> Shipped]
        /\ phase = "idle" /\ pos = 0 /\ askIdx = 1 /\ attempts = 0 /\ edits = 0
        /\ copying = FALSE /\ interrupted = FALSE
    BY DEF FilesInit
  <2>7. copying \in BOOLEAN /\ interrupted \in BOOLEAN
    BY <2>6
  <2>8. pos \in Nat /\ attempts \in Nat /\ edits \in Nat /\ askIdx \in Nat \ {0}
    BY <2>6
  <2>9. /\ phase # "confirming"
        /\ phase \in {"idle", "hashing", "confirming", "installing", "installed"}
    BY <2>6
  <2>10. QED
    BY <2>2, <2>4, <2>5, <2>6, <2>7, <2>8, <2>9, Zenon DEF FilesTypeOK
<1>2. NoRepeats(filesToUpdate)
  BY DEF FilesInit, NoRepeats
<1>3. Beginning /\ HashesRight /\ ListsRight /\ CopiesRight
  BY DEF FilesInit, Beginning, HashesRight, ListsRight, CopiesRight, Decided
<1>4. PristineRight
  BY DEF FilesInit, PristineRight, AsInstalled, Decided
<1>5. QED
  BY <1>1, <1>2, <1>3, <1>4 DEF FilesInv

\* What was decided stays decided while nothing it was decided on changes.
LEMMA DecisionsStay ==
    ASSUME UNCHANGED <<kind, metaNew, metaOld, oldPath, realOld>>
    PROVE  \A f \in Files : /\ Candidate(f)' <=> Candidate(f)
                            /\ NeedToAsk(f)' <=> NeedToAsk(f)
BY DEF Candidate, NeedToAsk, UpToDate, UserModifiable, Outdated, IsPlatFile

\* A session may end anywhere; only the end of a copying that is not complete
\* leaves files that are not what the metadata says.
LEMMA LeaveStep ==
    ASSUME FilesInv, Leave, askIdx' = askIdx,
           UNCHANGED <<release, metaDisk, fs, attempts, edits, pristine>>,
           \/ interrupted' = TRUE
           \/ interrupted' = interrupted /\ phase # "installing"
    PROVE  FilesInv'
<1>1. FilesTypeOK'
  <2>1. <<>> \in Seq(Files)
    OBVIOUS
  <2>2. NoFile \in [Files -> Contents] /\ [f \in Files |-> FALSE] \in [Files -> BOOLEAN]
    BY DEF NoFile, Contents
  <2>3. /\ metaOld' \in [Files -> Contents] /\ newFiles' \in [Files -> Contents]
        /\ realOld' \in [Files -> Contents] /\ realNew' \in [Files -> Contents]
        /\ oldPath' \in [Files -> BOOLEAN]
        /\ filesToAsk' \in Seq(Files) /\ filesToUpdate' \in Seq(Files)
    BY <2>1, <2>2 DEF Leave
  <2>4. /\ phase' = "idle" /\ pos' = 0 /\ copying' = FALSE
        /\ confirmed' = {} /\ declined' = {} /\ editedLate' = {}
    BY DEF Leave
  <2>5. /\ UNCHANGED <<kind, metaNew, metaDisk, fs, attempts, edits, pristine>>
        /\ interrupted' \in BOOLEAN
    BY DEF release, FilesInv, FilesTypeOK
  <2>6. QED
    BY <2>3, <2>4, <2>5 DEF FilesInv, FilesTypeOK
<1>2. phase' = "idle" /\ filesToUpdate' = <<>> /\ copying' = FALSE /\ editedLate' = {}
      /\ UNCHANGED <<kind, metaDisk, fs, pristine>>
  BY DEF Leave, release
<1>3. NoRepeats(filesToUpdate)'
  BY <1>2 DEF NoRepeats
<1>4. Beginning' /\ HashesRight' /\ ListsRight' /\ CopiesRight'
  BY <1>2 DEF Leave, Beginning, HashesRight, ListsRight, CopiesRight, Decided
<1>5. PristineRight'
  BY <1>2 DEF FilesInv, PristineRight, AsInstalled, Decided
<1>6. QED
  BY <1>1, <1>3, <1>4, <1>5 DEF FilesInv

-----------------------------------------------------------------------------
(* Steps up to the decision *)

\* A new session starts from nothing.
LEMMA StartSessionStep ==
    ASSUME FilesInv, StartSession
    PROVE  FilesInv'
<1>1. /\ UNCHANGED <<kind, metaNew, metaDisk, fs, realOld, realNew, copying, filesToAsk,
                     filesToUpdate, confirmed, declined, edits, editedLate, pristine,
                     interrupted>>
      /\ phase = "idle" /\ phase' = "hashing" /\ pos' = 1 /\ askIdx' = 1
      /\ metaOld' = metaDisk
      /\ oldPath' = [f \in Files |-> fs[f] # "none"]
      /\ attempts' = attempts + 1
  BY DEF StartSession, release, answers
<1>2. newFiles' \in [Files -> Contents]
  BY DEF StartSession, FilesInv, FilesTypeOK, Contents
<1>3. FilesTypeOK'
  BY <1>1, <1>2 DEF FilesInv, FilesTypeOK
<1>4. NoRepeats(filesToUpdate)' /\ Beginning' /\ ListsRight' /\ CopiesRight'
  BY <1>1 DEF FilesInv, NoRepeats, Beginning, ListsRight, CopiesRight, Decided
<1>5. HashesRight'
  <2>1. \A f \in Files : ~(f < pos')
    BY <1>1 DEF Files
  <2>2. pos' # 0 /\ metaOld' = metaDisk' /\ askIdx' = 1
    BY <1>1
  <2>3. \A f \in Files : oldPath'[f] <=> fs'[f] # "none"
    <3>1. /\ oldPath' = [f \in Files |-> fs[f] # "none"]
          /\ fs' = fs
      BY <1>1
    <3>2. QED
      BY <3>1, Zenon
  <2>4. QED
    BY <2>1, <2>2, <2>3, Zenon DEF HashesRight
<1>6. PristineRight'
  BY <1>1 DEF FilesInv, PristineRight, AsInstalled, Decided
<1>7. QED
  BY <1>3, <1>4, <1>5, <1>6 DEF FilesInv

\* Hashing one file extends the list of hashes.
LEMMA HashFileStep ==
    ASSUME FilesInv, HashFile
    PROVE  FilesInv'
<1>1. /\ UNCHANGED <<kind, metaNew, metaDisk, fs, phase, metaOld, newFiles, oldPath,
                     filesToAsk, askIdx, filesToUpdate, confirmed, declined, copying,
                     attempts, edits, editedLate, pristine, interrupted>>
      /\ phase = "hashing" /\ pos <= NumFiles
      /\ realNew' = [realNew EXCEPT ![pos] = newFiles[pos]]
      /\ realOld' = [realOld EXCEPT ![pos] = IF oldPath[pos] THEN fs[pos] ELSE "none"]
      /\ pos' = pos + 1
  BY DEF HashFile, release, lists, answers
<1>2. /\ pos \in Files /\ pos \in Nat /\ pos # 0
      /\ \A f \in Files : /\ oldPath[f] <=> fs[f] # "none"
                          /\ f < pos => realNew[f] = newFiles[f] /\ realOld[f] = fs[f]
      /\ askIdx = 1 /\ metaOld = metaDisk
  BY <1>1, FilesAssumption DEF FilesInv, HashesRight, FilesTypeOK, Files
<1>3. /\ realNew \in [Files -> Contents] /\ realOld \in [Files -> Contents]
      /\ fs \in [Files -> Contents] /\ newFiles \in [Files -> Contents]
  BY DEF FilesInv, FilesTypeOK
<1>4. FilesTypeOK'
  <2>1. realNew' \in [Files -> Contents] /\ realOld' \in [Files -> Contents]
    BY <1>1, <1>2, <1>3 DEF Contents
  <2>2. pos' \in Nat
    BY <1>1, <1>2
  <2>3. QED
    BY <1>1, <2>1, <2>2 DEF FilesInv, FilesTypeOK
<1>5. NoRepeats(filesToUpdate)' /\ Beginning' /\ ListsRight' /\ PristineRight'
  BY <1>1 DEF FilesInv, NoRepeats, Beginning, ListsRight, PristineRight, Decided, AsInstalled
<1>6. CopiesRight'
  BY <1>1 DEF FilesInv, CopiesRight, Decided
<1>7. HashesRight'
  <2>1. ASSUME NEW f \in Files, f < pos'
        PROVE  realNew'[f] = newFiles'[f] /\ realOld'[f] = fs'[f]
    <3>1. CASE f = pos
      BY <1>1, <1>2, <1>3, <3>1
    <3>2. CASE f # pos
      <4>1. f < pos
        BY <1>1, <1>2, <2>1, <3>2 DEF Files
      <4>2. QED
        BY <1>1, <1>2, <1>3, <3>2, <4>1
    <3>3. QED
      BY <3>1, <3>2
  <2>2. pos' # 0
    BY <1>1, <1>2
  <2>3. QED
    BY <1>1, <1>2, <2>1, <2>2 DEF HashesRight
<1>8. QED
  BY <1>4, <1>5, <1>6, <1>7 DEF FilesInv

\* ValidateUpdateFiles makes the lists of files to ask about and to update.
LEMMA ValidateStep ==
    ASSUME FilesInv, Validate
    PROVE  FilesInv'
<1> DEFINE asked == {f \in Files : Candidate(f) /\ NeedToAsk(f)}
           updated == {f \in Files : Candidate(f) /\ ~NeedToAsk(f)}
<1>1. /\ UNCHANGED <<kind, metaNew, metaDisk, fs, metaOld, newFiles, oldPath, realOld,
                     realNew, askIdx, confirmed, declined, copying, attempts, edits,
                     editedLate, pristine, interrupted>>
      /\ phase = "hashing" /\ pos > NumFiles /\ ~HashMismatch
      /\ filesToAsk' = InOrder(asked)
      /\ filesToUpdate' = InOrder(updated)
      /\ phase' = IF asked = {} THEN "installing" ELSE "confirming"
      /\ pos' = 0
  BY DEF Validate, release, hashes, answers
<1>2. /\ filesToAsk' \in Seq(Files) /\ filesToUpdate' \in Seq(Files)
      /\ Elements(filesToAsk') = asked /\ NoRepeats(filesToAsk')
      /\ Elements(filesToUpdate') = updated /\ NoRepeats(filesToUpdate')
  BY <1>1, InOrderFacts
<1>3. /\ askIdx = 1 /\ metaOld = metaDisk
      /\ confirmed = {} /\ declined = {} /\ editedLate = {}
      /\ \A f \in Files : realNew[f] = newFiles[f] /\ realOld[f] = fs[f]
  <2>1. pos \in Nat /\ NumFiles \in Nat /\ \A f \in Files : f \in Nat /\ f <= NumFiles
    BY FilesAssumption DEF FilesInv, FilesTypeOK, Files
  <2>2. \A f \in Files : f < pos
    BY <1>1, <2>1
  <2>3. QED
    BY <1>1, <2>2 DEF FilesInv, HashesRight, Beginning
<1> HIDE DEF asked, updated
<1>4. \A f \in Files : /\ Candidate(f)' <=> Candidate(f)
                       /\ NeedToAsk(f)' <=> NeedToAsk(f)
  BY <1>1, DecisionsStay
<1>5. FilesTypeOK'
  <2>1. phase' = "confirming" => askIdx' <= Len(filesToAsk')
    <3>1. phase' = "confirming" => Elements(filesToAsk') # {}
      BY <1>1, <1>2
    <3>2. Len(filesToAsk') \in Nat
      BY <1>2
    <3>3. QED
      BY <1>1, <1>3, <3>1, <3>2 DEF Elements
  <2>2. phase' \in {"idle", "hashing", "confirming", "installing", "installed"}
        /\ pos' \in Nat
    BY <1>1
  <2>3. QED
    BY <1>1, <1>2, <2>1, <2>2 DEF FilesInv, FilesTypeOK
<1>6. Beginning' /\ HashesRight' /\ phase' \in {"confirming", "installing"}
  BY <1>1 DEF Beginning, HashesRight
<1>7. ListsRight'
  <2>1. newFiles' = metaNew'
    <3>1. \A f \in Files : newFiles[f] = metaNew[f]
      BY <1>1, <1>3 DEF HashMismatch
    <3>2. newFiles \in [Files -> Contents] /\ metaNew \in [Files -> Shipped]
      BY DEF FilesInv, FilesTypeOK
    <3>3. QED
      BY <1>1, <3>1, <3>2
  <2>2. Elements(filesToAsk') = {f \in Files : Candidate(f)' /\ NeedToAsk(f)'}
    BY <1>2, <1>4 DEF asked
  <2>3. Elements(filesToUpdate') =
            {f \in Files : Candidate(f)' /\ ~NeedToAsk(f)'} \cup confirmed'
    BY <1>1, <1>2, <1>3, <1>4 DEF updated
  <2>4. confirmed' \cup declined' =
            IF phase' = "confirming" THEN Answered' ELSE Elements(filesToAsk')
    BY <1>1, <1>2, <1>3 DEF Answered
  <2>5. confirmed' \cap declined' = {}
    BY <1>1, <1>3
  <2>6. QED
    BY <1>2, <2>1, <2>2, <2>3, <2>4, <2>5 DEF ListsRight, Elements, NoRepeats
<1>8. CopiesRight'
  <2>1. \A i \in 1..Len(filesToUpdate') : ~(i < pos')
    BY <1>1, <1>2
  <2>2. editedLate' \cap pristine' = {} /\ copying' = FALSE
    BY <1>1, <1>3 DEF FilesInv, CopiesRight, FilesTypeOK
  <2>3. QED
    BY <1>1, <1>3, <1>6, <2>1, <2>2 DEF CopiesRight
<1>9. PristineRight'
  <2>1. pristine \subseteq Files
    BY DEF FilesInv, FilesTypeOK
  <2>2. ASSUME ~interrupted, NEW f \in pristine
        PROVE  AsInstalled(f, fs, metaDisk) /\ AsInstalled(f, realOld, metaOld)
    <3>1. AsInstalled(f, fs, metaDisk)
      BY <1>1, <2>2 DEF FilesInv, PristineRight
    <3>2. QED
      BY <1>3, <2>1, <3>1 DEF AsInstalled
  <2>3. ~(pos' > 0)
    BY <1>1
  <2>4. QED
    BY <1>1, <1>6, <2>2, <2>3 DEF PristineRight, AsInstalled
<1>10. QED
  BY <1>2, <1>5, <1>6, <1>7, <1>8, <1>9 DEF FilesInv, NoRepeats

-----------------------------------------------------------------------------
(* The replace dialog *)

\* Whom an answer is about: the next file, or all that are left.  None of them
\* was answered or put into the list before.
LEMMA ChosenFacts ==
    ASSUME FilesInv, phase = "confirming", NEW last \in {askIdx, Len(filesToAsk)}
    PROVE  LET chosen == SubSeq(filesToAsk, askIdx, last)
           IN  /\ last \in askIdx..Len(filesToAsk)
               /\ chosen \in Seq(Files) /\ NoRepeats(chosen)
               /\ Elements(chosen) = {filesToAsk[i] : i \in askIdx..last}
               /\ Elements(chosen) \subseteq Files
               /\ Elements(chosen) \cap Elements(filesToUpdate) = {}
               /\ Elements(chosen) \cap (confirmed \cup declined) = {}
               /\ Answered \cup Elements(chosen) = {filesToAsk[i] : i \in 1..last}
<1> DEFINE chosen == SubSeq(filesToAsk, askIdx, last)
           left == {filesToAsk[i] : i \in askIdx..last}
<1>1. /\ filesToAsk \in Seq(Files) /\ Len(filesToAsk) \in Nat
      /\ askIdx \in 1..Len(filesToAsk) /\ last \in askIdx..Len(filesToAsk)
      /\ \A i \in 1..Len(filesToAsk) : filesToAsk[i] \in Files
  BY DEF FilesInv, FilesTypeOK
<1>2. /\ NoRepeats(filesToAsk)
      /\ Elements(filesToAsk) = {f \in Files : Candidate(f) /\ NeedToAsk(f)}
      /\ Elements(filesToUpdate) =
             {f \in Files : Candidate(f) /\ ~NeedToAsk(f)} \cup confirmed
      /\ confirmed \cup declined = Answered
  BY DEF FilesInv, ListsRight, Decided
<1>3. chosen \in Seq(Files) /\ NoRepeats(chosen) /\ Elements(chosen) = left
  BY <1>1, <1>2, StretchFacts
<1> HIDE DEF chosen
<1>4. ASSUME NEW i \in askIdx..last
      PROVE  /\ filesToAsk[i] \in Files
             /\ filesToAsk[i] \notin Answered
             /\ filesToAsk[i] \notin Elements(filesToUpdate)
  <2>1. i \in 1..Len(filesToAsk) /\ filesToAsk[i] \in Files
    BY <1>1
  <2>2. filesToAsk[i] \notin Answered
    <3>1. \A k \in 1..askIdx - 1 : k \in 1..Len(filesToAsk) /\ k # i
      BY <1>1
    <3>2. QED
      BY <1>2, <2>1, <3>1 DEF Answered, NoRepeats
  <2>3. NeedToAsk(filesToAsk[i])
    BY <1>2, <2>1 DEF Elements
  <2>4. QED
    BY <1>2, <2>1, <2>2, <2>3
<1>5. left \subseteq Files /\ left \cap Answered = {} /\ left \cap Elements(filesToUpdate) = {}
  BY <1>4
<1>6. Answered \cup left = {filesToAsk[i] : i \in 1..last}
  <2>1. \A i \in 1..last : i \in 1..askIdx - 1 \/ i \in askIdx..last
    BY <1>1
  <2>2. \A i \in 1..askIdx - 1 : i \in 1..last
    BY <1>1
  <2>3. \A i \in askIdx..last : i \in 1..last
    BY <1>1
  <2>4. QED
    BY <2>1, <2>2, <2>3 DEF Answered
<1> HIDE DEF left
<1>7. QED
  BY <1>1, <1>2, <1>3, <1>5, <1>6 DEF chosen, left

\* An answer settles the file it is about.
LEMMA AnswerStep ==
    ASSUME FilesInv, NEW replace \in BOOLEAN, NEW forAll \in BOOLEAN, Answer(replace, forAll)
    PROVE  FilesInv'
<1> DEFINE last == IF forAll THEN Len(filesToAsk) ELSE askIdx
           chosen == SubSeq(filesToAsk, askIdx, last)
           chosenFiles == Elements(chosen)
<1>1. /\ UNCHANGED <<kind, metaNew, metaDisk, fs, metaOld, newFiles, oldPath, realOld,
                     realNew, filesToAsk, pos, copying, attempts, edits, editedLate,
                     pristine, interrupted>>
      /\ phase = "confirming"
      /\ \/ /\ filesToUpdate' = filesToUpdate \o chosen
            /\ confirmed' = confirmed \cup chosenFiles
            /\ declined' = declined
         \/ /\ filesToUpdate' = filesToUpdate
            /\ confirmed' = confirmed
            /\ declined' = declined \cup chosenFiles
      /\ \/ (forAll \/ askIdx = Len(filesToAsk)) /\ phase' = "installing" /\ askIdx' = 1
         \/ /\ ~forAll /\ askIdx # Len(filesToAsk)
            /\ phase' = "confirming" /\ askIdx' = askIdx + 1
  BY DEF Answer, release, hashes, Elements
<1>2. last \in {askIdx, Len(filesToAsk)}
  OBVIOUS
<1>3. /\ last \in askIdx..Len(filesToAsk)
      /\ chosen \in Seq(Files) /\ NoRepeats(chosen)
      /\ chosenFiles \subseteq Files
      /\ chosenFiles \cap Elements(filesToUpdate) = {}
      /\ chosenFiles \cap (confirmed \cup declined) = {}
      /\ Answered \cup chosenFiles = {filesToAsk[i] : i \in 1..last}
  <2> HIDE DEF last
  <2> QED BY <1>1, <1>2, ChosenFacts
<1>4. \/ phase' = "installing" /\ last = Len(filesToAsk) /\ askIdx' = 1
      \/ phase' = "confirming" /\ last = askIdx /\ askIdx' = last + 1
                               /\ askIdx # Len(filesToAsk)
  BY <1>1
<1>5. /\ filesToAsk \in Seq(Files) /\ Len(filesToAsk) \in Nat /\ last \in Nat
      /\ filesToUpdate \in Seq(Files) /\ NoRepeats(filesToUpdate)
      /\ askIdx \in Nat /\ askIdx <= Len(filesToAsk)
  BY <1>1 DEF FilesInv, FilesTypeOK
<1> HIDE DEF last, chosen
<1>6. /\ filesToUpdate' \in Seq(Files) /\ NoRepeats(filesToUpdate')
      /\ Elements(filesToUpdate') = Elements(filesToUpdate) \cup (confirmed' \ confirmed)
  <2>1. CASE /\ filesToUpdate' = filesToUpdate \o chosen
             /\ confirmed' = confirmed \cup chosenFiles
    <3>1. /\ filesToUpdate' \in Seq(Files) /\ NoRepeats(filesToUpdate')
          /\ Elements(filesToUpdate') = Elements(filesToUpdate) \cup chosenFiles
      BY <1>3, <1>5, <2>1, ConcatFacts, ConcatElements
    <3> HIDE DEF chosenFiles
    <3>2. QED
      BY <1>3, <2>1, <3>1
  <2>2. CASE filesToUpdate' = filesToUpdate /\ confirmed' = confirmed
    BY <1>5, <2>2
  <2>3. QED
    BY <1>1, <2>1, <2>2
<1> HIDE DEF chosenFiles
<1>7. FilesTypeOK'
  <2>1. confirmed' \subseteq Files /\ declined' \subseteq Files
    BY <1>1, <1>3 DEF FilesInv, FilesTypeOK
  <2>2. /\ askIdx' \in Nat \ {0}
        /\ phase' = "confirming" => askIdx' <= Len(filesToAsk')
        /\ phase' \in {"idle", "hashing", "confirming", "installing", "installed"}
    BY <1>1, <1>4, <1>5
  <2>3. QED
    BY <1>1, <1>6, <2>1, <2>2 DEF FilesInv, FilesTypeOK
<1>8. \A f \in Files : /\ Candidate(f)' <=> Candidate(f)
                       /\ NeedToAsk(f)' <=> NeedToAsk(f)
  BY <1>1, DecisionsStay
<1>9. ListsRight'
  <2>1. /\ newFiles = metaNew /\ NoRepeats(filesToAsk)
        /\ Elements(filesToAsk) = {f \in Files : Candidate(f) /\ NeedToAsk(f)}
        /\ Elements(filesToUpdate) =
               {f \in Files : Candidate(f) /\ ~NeedToAsk(f)} \cup confirmed
        /\ confirmed \cap declined = {}
        /\ confirmed \cup declined = Answered
    BY <1>1 DEF FilesInv, ListsRight, Decided
  <2>2. Elements(filesToAsk') = {f \in Files : Candidate(f)' /\ NeedToAsk(f)'}
    BY <1>1, <1>8, <2>1
  <2>3. confirmed \subseteq confirmed'
    BY <1>1
  <2>4. Elements(filesToUpdate') =
            {f \in Files : Candidate(f)' /\ ~NeedToAsk(f)'} \cup confirmed'
    <3>1. {f \in Files : Candidate(f)' /\ ~NeedToAsk(f)'} =
              {f \in Files : Candidate(f) /\ ~NeedToAsk(f)}
      BY <1>8
    <3>2. QED
      BY <1>6, <2>1, <2>3, <3>1
  <2>5. confirmed' \cap declined' = {} /\ confirmed' \cup declined' = Answered \cup chosenFiles
    BY <1>1, <1>3, <2>1
  <2>6. Answered \cup chosenFiles =
            IF phase' = "confirming" THEN Answered' ELSE Elements(filesToAsk')
    <3>1. CASE phase' = "installing" /\ last = Len(filesToAsk)
      BY <1>1, <1>3, <3>1 DEF Elements
    <3>2. CASE phase' = "confirming" /\ askIdx' = last + 1
      <4>1. askIdx' - 1 = last
        BY <1>5, <3>2
      <4>2. QED
        BY <1>1, <1>3, <3>2, <4>1 DEF Answered
    <3>3. QED
      BY <1>4, <3>1, <3>2
  <2>7. QED
    BY <1>1, <2>1, <2>2, <2>4, <2>5, <2>6 DEF ListsRight, Elements, NoRepeats
<1>10. CopiesRight'
  <2>1. /\ editedLate \cap pristine = {} /\ ~copying /\ pos = 0
        /\ \A f \in Files \ editedLate : fs[f] = realOld[f]
    BY <1>1 DEF FilesInv, CopiesRight, Decided
  <2>2. \A i \in 1..Len(filesToUpdate') : ~(i < pos')
    BY <1>1, <1>6, <2>1
  <2>3. phase' # "installed"
    BY <1>4
  <2>4. QED
    BY <1>1, <2>1, <2>2, <2>3 DEF CopiesRight
<1>11. PristineRight'
  <2>1. phase' \in {"confirming", "installing"} /\ pos' = 0
    BY <1>1, <1>4 DEF FilesInv, CopiesRight
  <2>2. QED
    BY <1>1, <2>1 DEF FilesInv, PristineRight, AsInstalled, Decided
<1>12. Beginning' /\ HashesRight'
  BY <1>4 DEF Beginning, HashesRight
<1>13. QED
  BY <1>6, <1>7, <1>9, <1>10, <1>11, <1>12 DEF FilesInv, NoRepeats

-----------------------------------------------------------------------------
(* Copying *)

\* While a session goes on, the lists and what was hashed stay.
LEMMA ListsStay ==
    ASSUME FilesInv, phase = "installing", phase' \in {"installing", "installed"},
           UNCHANGED <<release, session>>
    PROVE  ListsRight' /\ NoRepeats(filesToUpdate)' /\ Beginning' /\ HashesRight'
<1>1. UNCHANGED <<kind, metaNew, metaOld, newFiles, oldPath, realOld, realNew,
                  filesToAsk, askIdx, filesToUpdate, confirmed, declined>>
  BY DEF release, session, hashes, lists, answers
<1>2. \A f \in Files : /\ Candidate(f)' <=> Candidate(f)
                       /\ NeedToAsk(f)' <=> NeedToAsk(f)
  BY <1>1, DecisionsStay
<1>3. ListsRight'
  <2>1. /\ {f \in Files : Candidate(f)' /\ NeedToAsk(f)'} =
               {f \in Files : Candidate(f) /\ NeedToAsk(f)}
        /\ {f \in Files : Candidate(f)' /\ ~NeedToAsk(f)'} =
               {f \in Files : Candidate(f) /\ ~NeedToAsk(f)}
    BY <1>2
  <2>2. ListsRight /\ Decided /\ phase # "confirming" /\ phase' # "confirming"
    BY DEF FilesInv, Decided
  <2>3. QED
    BY <1>1, <2>1, <2>2 DEF ListsRight, Elements, NoRepeats
<1>4. NoRepeats(filesToUpdate)' /\ Beginning' /\ HashesRight'
  BY <1>1 DEF FilesInv, NoRepeats, Beginning, HashesRight
<1>5. QED
  BY <1>3, <1>4

\* The file at pos is in the list, and the files before it are others.
LEMMA TargetFacts ==
    ASSUME FilesInv, pos > 0, pos <= Len(filesToUpdate)
    PROVE  /\ Target \in Files /\ Target \in Elements(filesToUpdate)
           /\ \A i \in 1..Len(filesToUpdate) : i < pos => filesToUpdate[i] # Target
<1>1. pos \in 1..Len(filesToUpdate) /\ filesToUpdate \in Seq(Files)
  BY DEF FilesInv, FilesTypeOK
<1>2. NoRepeats(filesToUpdate)
  BY DEF FilesInv
<1>3. QED
  BY <1>1, <1>2 DEF Target, Elements, NoRepeats

\* A copy that begins has replaced nothing of the file yet.
LEMMA CopyBeginsStep ==
    ASSUME FilesInv, CopyBegins
    PROVE  FilesInv'
<1>1. /\ UNCHANGED <<release, session>>
      /\ UNCHANGED <<kind, metaNew, metaOld, newFiles, oldPath, realOld, realNew,
                     filesToAsk, askIdx, filesToUpdate, confirmed, declined, phase, pos,
                     attempts, edits, editedLate, pristine, interrupted>>
      /\ phase = "installing" /\ ~copying /\ pos <= Len(filesToUpdate) /\ copying' = TRUE
  BY DEF CopyBegins, release, session, hashes, lists, answers
<1>2. \/ pos = 0 /\ metaDisk' = [f \in Files |-> "torn"] /\ fs' = fs
      \/ /\ pos # 0 /\ metaDisk' = metaDisk
         /\ \E c \in {"none", "torn"} : fs' = [fs EXCEPT ![Target] = c]
  BY DEF CopyBegins
<1>3. pos \in Nat /\ fs \in [Files -> Contents]
  BY DEF FilesInv, FilesTypeOK
<1>4. pos # 0 => /\ Target \in Files /\ Target \in Elements(filesToUpdate)
                 /\ \A i \in 1..Len(filesToUpdate) : i < pos => filesToUpdate[i] # Target
  BY <1>1, <1>3, TargetFacts
<1>5. FilesTypeOK'
  <2>1. metaDisk' \in [Files -> Contents]
    BY <1>2 DEF FilesInv, FilesTypeOK, Contents
  <2>2. fs' \in [Files -> Contents]
    BY <1>2, <1>3, <1>4 DEF Contents
  <2>3. QED
    BY <1>1, <2>1, <2>2 DEF FilesInv, FilesTypeOK
<1>6. ListsRight' /\ NoRepeats(filesToUpdate)' /\ Beginning' /\ HashesRight'
  BY <1>1, ListsStay
<1>7. CopiesRight'
  <2>1. /\ editedLate \cap pristine = {}
        /\ \A f \in Files \ editedLate :
               f \notin Elements(filesToUpdate) => fs[f] = realOld[f]
        /\ \A i \in 1..Len(filesToUpdate) :
               i < pos => fs[filesToUpdate[i]] = metaNew[filesToUpdate[i]]
    BY <1>1 DEF FilesInv, CopiesRight, Decided
  <2>2. \A f \in Files : f # Target => fs'[f] = fs[f]
    BY <1>2, <1>3, <1>4
  <2>3. \A f \in Files \ editedLate :
            f \notin Elements(filesToUpdate) => fs'[f] = realOld[f]
    <3>1. pos = 0 => fs' = fs
      BY <1>2
    <3>2. QED
      BY <1>4, <2>1, <2>2, <3>1
  <2>4. ASSUME NEW i \in 1..Len(filesToUpdate), i < pos
        PROVE  fs'[filesToUpdate[i]] = metaNew[filesToUpdate[i]]
    <3>1. pos # 0 /\ filesToUpdate[i] \in Files
      BY <1>3, <2>4 DEF FilesInv, FilesTypeOK
    <3>2. QED
      BY <1>4, <2>1, <2>2, <2>4, <3>1
  <2>5. QED
    BY <1>1, <2>1, <2>3, <2>4 DEF CopiesRight, Elements
<1>8. PristineRight'
  BY <1>1, <1>2, <1>3 DEF FilesInv, PristineRight, AsInstalled, Decided
<1>9. QED
  BY <1>5, <1>6, <1>7, <1>8 DEF FilesInv

\* A copy that ends leaves the new file.
LEMMA CopyEndsStep ==
    ASSUME FilesInv, CopyEnds
    PROVE  FilesInv'
<1>1. /\ UNCHANGED <<release, session>>
      /\ UNCHANGED <<kind, metaNew, metaOld, newFiles, oldPath, realOld, realNew,
                     filesToAsk, askIdx, filesToUpdate, confirmed, declined, phase,
                     attempts, edits, editedLate, pristine, interrupted>>
      /\ phase = "installing" /\ copying /\ copying' = FALSE /\ pos' = pos + 1
  BY DEF CopyEnds, release, session, hashes, lists, answers
<1>2. \/ pos = 0 /\ metaDisk' = metaNew /\ fs' = fs
      \/ /\ pos # 0 /\ metaDisk' = metaDisk
         /\ fs' = [fs EXCEPT ![Target] = newFiles[Target]]
  BY DEF CopyEnds
<1>3. /\ pos \in Nat /\ fs \in [Files -> Contents] /\ newFiles \in [Files -> Contents]
      /\ metaNew \in [Files -> Shipped] /\ pos <= Len(filesToUpdate)
      /\ newFiles = metaNew /\ filesToUpdate \in Seq(Files)
  BY <1>1 DEF FilesInv, FilesTypeOK, CopiesRight, ListsRight, Decided
<1>4. pos # 0 => /\ Target \in Files /\ Target \in Elements(filesToUpdate)
                 /\ \A i \in 1..Len(filesToUpdate) : i < pos => filesToUpdate[i] # Target
  BY <1>3, TargetFacts
<1>5. FilesTypeOK'
  <2>1. metaDisk' \in [Files -> Contents]
    BY <1>2, <1>3 DEF FilesInv, FilesTypeOK, Contents
  <2>2. fs' \in [Files -> Contents]
    BY <1>2, <1>3, <1>4
  <2>3. pos' \in Nat
    BY <1>1, <1>3
  <2>4. QED
    BY <1>1, <2>1, <2>2, <2>3 DEF FilesInv, FilesTypeOK
<1>6. ListsRight' /\ NoRepeats(filesToUpdate)' /\ Beginning' /\ HashesRight'
  BY <1>1, ListsStay
<1>7. CopiesRight'
  <2>1. /\ editedLate \cap pristine = {}
        /\ \A f \in Files \ editedLate :
               f \notin Elements(filesToUpdate) => fs[f] = realOld[f]
        /\ \A i \in 1..Len(filesToUpdate) :
               i < pos => fs[filesToUpdate[i]] = metaNew[filesToUpdate[i]]
    BY <1>1 DEF FilesInv, CopiesRight, Decided
  <2>2. \A f \in Files : f # Target => fs'[f] = fs[f]
    BY <1>2, <1>3, <1>4
  <2>3. \A f \in Files \ editedLate :
            f \notin Elements(filesToUpdate) => fs'[f] = realOld[f]
    <3>1. pos = 0 => fs' = fs
      BY <1>2
    <3>2. QED
      BY <1>4, <2>1, <2>2, <3>1
  <2>4. ASSUME NEW i \in 1..Len(filesToUpdate), i < pos'
        PROVE  fs'[filesToUpdate[i]] = metaNew[filesToUpdate[i]]
    <3>1. pos # 0 /\ filesToUpdate[i] \in Files /\ (i < pos \/ i = pos)
      BY <1>1, <1>3, <2>4
    <3>2. CASE i < pos
      BY <1>4, <2>1, <2>2, <3>1, <3>2
    <3>3. CASE i = pos
      BY <1>2, <1>3, <1>4, <3>1, <3>3 DEF Target
    <3>4. QED
      BY <3>1, <3>2, <3>3
  <2>5. QED
    BY <1>1, <2>1, <2>3, <2>4 DEF CopiesRight, Elements
<1>8. PristineRight'
  <2>1. metaDisk' = metaNew \/ interrupted
    BY <1>1, <1>2, <1>3 DEF FilesInv, PristineRight
  <2>2. QED
    BY <1>1, <2>1 DEF FilesInv, PristineRight, AsInstalled, Decided
<1>9. QED
  BY <1>5, <1>6, <1>7, <1>8 DEF FilesInv

\* Once everything is copied, a file that is not the new release's is one that
\* the user keeps or edits, or that was not the old release's.
LEMMA AllCopied ==
    ASSUME FilesInv, phase \in {"installing", "installed"}, pos > Len(filesToUpdate),
           NEW f \in Files
    PROVE  /\ f \in Elements(filesToUpdate) => fs[f] = metaNew[f]
           /\ \/ fs[f] = metaNew[f]
              \/ f \in declined \cup editedLate
              \/ fs[f] = realOld[f] /\ ~Candidate(f)
<1>1. /\ Elements(filesToAsk) = {g \in Files : Candidate(g) /\ NeedToAsk(g)}
      /\ Elements(filesToUpdate) =
             {g \in Files : Candidate(g) /\ ~NeedToAsk(g)} \cup confirmed
      /\ confirmed \cup declined = Elements(filesToAsk)
  BY DEF FilesInv, ListsRight, Decided
<1>2. f \in Elements(filesToUpdate) => fs[f] = metaNew[f]
  <2>1. \A i \in 1..Len(filesToUpdate) : i < pos
    BY DEF FilesInv, FilesTypeOK
  <2>2. \A i \in 1..Len(filesToUpdate) : fs[filesToUpdate[i]] = metaNew[filesToUpdate[i]]
    BY <2>1 DEF FilesInv, CopiesRight
  <2>3. QED
    BY <2>2 DEF Elements
<1>3. f \notin Elements(filesToUpdate) => f \in declined \/ ~Candidate(f)
  BY <1>1
<1>4. f \notin editedLate /\ f \notin Elements(filesToUpdate) => fs[f] = realOld[f]
  BY DEF FilesInv, CopiesRight, Decided
<1>5. QED
  BY <1>2, <1>3, <1>4

\* The session succeeds when all files are copied.
LEMMA SucceedStep ==
    ASSUME FilesInv, Succeed
    PROVE  FilesInv'
<1>1. /\ UNCHANGED <<release, session>>
      /\ UNCHANGED <<kind, metaNew, metaDisk, fs, metaOld, newFiles, oldPath, realOld,
                     realNew, filesToAsk, askIdx, filesToUpdate, confirmed, declined, pos,
                     copying, attempts, edits, editedLate, pristine, interrupted>>
      /\ phase = "installing" /\ pos > Len(filesToUpdate) /\ phase' = "installed"
  BY DEF Succeed, release, session, hashes, lists, answers
<1>2. /\ pos \in Nat /\ Len(filesToUpdate) \in Nat /\ ~copying
      /\ pristine \subseteq Files
  BY <1>1 DEF FilesInv, FilesTypeOK, CopiesRight
<1>3. FilesTypeOK'
  BY <1>1 DEF FilesInv, FilesTypeOK
<1>4. ListsRight' /\ NoRepeats(filesToUpdate)' /\ Beginning' /\ HashesRight'
  BY <1>1, ListsStay
<1>5. CopiesRight'
  BY <1>1, <1>2 DEF FilesInv, CopiesRight, Decided, Elements
<1>6. PristineRight'
  <2>1. ASSUME ~interrupted
        PROVE  /\ metaDisk = metaNew
               /\ \A f \in pristine : AsInstalled(f, realOld, metaOld)
    BY <1>1, <1>2, <2>1 DEF FilesInv, PristineRight, Decided
  <2>2. ASSUME ~interrupted, NEW f \in pristine
        PROVE  AsInstalled(f, fs, metaDisk)
    <3>1. f \in Files /\ f \notin editedLate
      BY <1>2 DEF FilesInv, CopiesRight
    <3>2. f \notin declined \/ ~Candidate(f) \/ fs[f] = metaNew[f]
      <4>1. ASSUME f \in declined, Candidate(f) PROVE FALSE
        <5>1. NeedToAsk(f)
          BY <1>1, <4>1 DEF FilesInv, ListsRight, Decided
        <5>2. metaOld[f] # realOld[f] /\ ~UserModifiable(f)
          BY <4>1, <5>1 DEF NeedToAsk, Candidate
        <5>3. QED
          BY <2>1, <2>2, <5>2 DEF AsInstalled, UserModifiable
      <4>2. QED
        BY <4>1
    <3>3. fs[f] = metaNew[f] \/ (fs[f] = realOld[f] /\ ~Candidate(f))
      <4>1. f \in declined => Candidate(f)
        BY <1>1, <3>1 DEF FilesInv, ListsRight, Decided
      <4>2. QED
        BY <1>1, <3>1, <3>2, <4>1, AllCopied
    <3>4. CASE fs[f] = realOld[f] /\ ~Candidate(f)
      <4>1. CASE UpToDate(f)
        BY <2>1, <2>2, <3>4, <4>1 DEF UpToDate, AsInstalled
      <4>2. CASE UserModifiable(f)
        BY <3>4, <4>2 DEF UserModifiable, AsInstalled
      <4>3. CASE ~Outdated(f)
        BY <2>1, <2>2, <3>4, <4>3 DEF Outdated, AsInstalled
      <4>4. QED
        BY <3>4, <4>1, <4>2, <4>3 DEF Candidate
    <3>5. QED
      BY <2>1, <2>2, <3>3, <3>4 DEF AsInstalled
  <2>3. QED
    BY <1>1, <2>1, <2>2 DEF PristineRight, AsInstalled
<1>7. QED
  BY <1>3, <1>4, <1>5, <1>6 DEF FilesInv

\* An edit takes a file out of those that any promise is made about.
LEMMA UserEditsStep ==
    ASSUME FilesInv, NEW f \in Files, UserEdits(f)
    PROVE  FilesInv'
<1>1. /\ UNCHANGED <<release, session>>
      /\ UNCHANGED <<kind, metaNew, metaDisk, phase, metaOld, newFiles, oldPath, realOld,
                     realNew, filesToAsk, askIdx, filesToUpdate, confirmed, declined, pos,
                     copying, attempts, interrupted>>
      /\ phase \in {"idle", "confirming"} /\ edits' = edits + 1
      /\ pristine' = pristine \ {f}
      /\ editedLate' = IF phase = "confirming" THEN editedLate \cup {f} ELSE editedLate
  BY DEF UserEdits, release, session, hashes, lists, answers
<1>2. PICK c \in {"user", "none"} : fs' = [fs EXCEPT ![f] = c]
  BY DEF UserEdits
<1>3. fs \in [Files -> Contents] /\ pristine \subseteq Files
  BY DEF FilesInv, FilesTypeOK
<1>4. \A g \in Files \ {f} : fs'[g] = fs[g]
  BY <1>2, <1>3
<1>5. FilesTypeOK'
  <2>1. fs' \in [Files -> Contents]
    BY <1>2, <1>3 DEF Contents
  <2>2. edits' \in Nat /\ editedLate' \subseteq Files /\ pristine' \subseteq Files
    BY <1>1 DEF FilesInv, FilesTypeOK
  <2>3. QED
    BY <1>1, <2>1, <2>2 DEF FilesInv, FilesTypeOK
<1>6. \A g \in Files : /\ Candidate(g)' <=> Candidate(g)
                       /\ NeedToAsk(g)' <=> NeedToAsk(g)
  BY <1>1, DecisionsStay
<1>7. ListsRight'
  <2>1. /\ {g \in Files : Candidate(g)' /\ NeedToAsk(g)'} =
               {g \in Files : Candidate(g) /\ NeedToAsk(g)}
        /\ {g \in Files : Candidate(g)' /\ ~NeedToAsk(g)'} =
               {g \in Files : Candidate(g) /\ ~NeedToAsk(g)}
    BY <1>6
  <2>2. ListsRight
    BY DEF FilesInv
  <2>3. QED
    BY <1>1, <2>1, <2>2 DEF ListsRight, Elements, NoRepeats, Decided, Answered
<1>8. NoRepeats(filesToUpdate)' /\ Beginning' /\ HashesRight'
  BY <1>1 DEF FilesInv, NoRepeats, Beginning, HashesRight
<1>9. CopiesRight'
  <2>1. editedLate' \cap pristine' = {}
    BY <1>1 DEF FilesInv, CopiesRight
  <2>2. ASSUME phase = "confirming", NEW g \in Files \ editedLate'
        PROVE  fs'[g] = realOld[g]
    <3>1. g \in Files \ editedLate /\ g # f
      BY <1>1, <2>2
    <3>2. QED
      BY <1>4, <2>2, <3>1 DEF FilesInv, CopiesRight, Decided
  <2>3. /\ copying => phase = "installing" /\ pos <= Len(filesToUpdate)
        /\ phase = "confirming" => pos = 0
    BY DEF FilesInv, CopiesRight
  <2>4. QED
    BY <1>1, <2>1, <2>2, <2>3 DEF CopiesRight, Decided
<1>10. PristineRight'
  <2>1. \A g \in pristine' : g \in pristine /\ fs'[g] = fs[g]
    BY <1>1, <1>3, <1>4
  <2>2. QED
    BY <1>1, <2>1 DEF FilesInv, PristineRight, AsInstalled, Decided
<1>11. QED
  BY <1>5, <1>7, <1>8, <1>9, <1>10 DEF FilesInv

-----------------------------------------------------------------------------
(* The theorems *)

\* Every step of the update keeps the invariant.
LEMMA FilesStep == FilesInv /\ [FilesNext]_filesVars => FilesInv'
<1> SUFFICES ASSUME FilesInv, [FilesNext]_filesVars PROVE FilesInv'
  OBVIOUS
<1>1. CASE StartSession
  BY <1>1, StartSessionStep
<1>2. CASE HashFile
  BY <1>2, HashFileStep
<1>3. CASE GiveUp
  BY <1>3, LeaveStep DEF GiveUp
<1>4. CASE Validate
  BY <1>4, ValidateStep
<1>5. CASE \E replace \in BOOLEAN, forAll \in BOOLEAN : Answer(replace, forAll)
  BY <1>5, AnswerStep
<1>6. CASE CopyBegins
  BY <1>6, CopyBeginsStep
<1>7. CASE CopyEnds
  BY <1>7, CopyEndsStep
<1>8. CASE CopyFails
  BY <1>8, LeaveStep DEF CopyFails
<1>9. CASE Succeed
  BY <1>9, SucceedStep
<1>10. CASE CleanUp
  BY <1>10, LeaveStep DEF CleanUp
<1>11. CASE \E f \in Files : UserEdits(f)
  BY <1>11, UserEditsStep
<1>12. CASE UNCHANGED filesVars
  <2>1. UNCHANGED <<kind, metaNew, metaDisk, fs, phase, metaOld, newFiles, oldPath, realOld,
                    realNew, filesToAsk, askIdx, filesToUpdate, confirmed, declined, pos,
                    copying, attempts, edits, editedLate, pristine, interrupted>>
    BY <1>12 DEF filesVars, release, session, hashes, lists, answers
  <2>2. \A f \in Files : /\ Candidate(f)' <=> Candidate(f)
                         /\ NeedToAsk(f)' <=> NeedToAsk(f)
    BY <2>1, DecisionsStay
  <2>3. /\ {f \in Files : Candidate(f)' /\ NeedToAsk(f)'} =
               {f \in Files : Candidate(f) /\ NeedToAsk(f)}
        /\ {f \in Files : Candidate(f)' /\ ~NeedToAsk(f)'} =
               {f \in Files : Candidate(f) /\ ~NeedToAsk(f)}
    BY <2>2
  <2>4. ListsRight'
    BY <2>1, <2>3 DEF FilesInv, ListsRight, Elements, NoRepeats, Decided, Answered
  <2>5. FilesTypeOK' /\ NoRepeats(filesToUpdate)' /\ Beginning' /\ HashesRight'
    BY <2>1 DEF FilesInv, FilesTypeOK, NoRepeats, Beginning, HashesRight
  <2>6. CopiesRight' /\ PristineRight'
    BY <2>1 DEF FilesInv, CopiesRight, PristineRight, AsInstalled, Elements, Decided
  <2>7. QED
    BY <2>4, <2>5, <2>6 DEF FilesInv
<1>13. QED
  BY <1>1, <1>2, <1>3, <1>4, <1>5, <1>6, <1>7, <1>8, <1>9, <1>10, <1>11, <1>12
     DEF FilesNext, NothingToDo

\* The inductive invariant holds of every state of every behaviour.
THEOREM FilesInvariant == FilesSpec => []FilesInv
BY FilesInit_Inv, FilesStep, PTL DEF FilesSpec

\* The state has its types, and the replace dialog never indexes m_FilesToAsk out
\* of its bounds, for any number of files.
THEOREM FilesTypeCorrect == FilesSpec => []FilesTypeOK
<1>1. FilesInv => FilesTypeOK
  BY DEF FilesInv
<1>2. QED
  BY <1>1, FilesInvariant, PTL

\* The replace dialog settles every file it was opened for, once, and no file is
\* copied twice.
THEOREM QuestionsAreSettled == FilesSpec => []EveryQuestionSettled
<1>1. FilesInv => EveryQuestionSettled
  <2> SUFFICES ASSUME FilesInv PROVE EveryQuestionSettled
    OBVIOUS
  <2>1. ToUpdate = Elements(filesToUpdate) /\ ToAsk = Elements(filesToAsk)
    BY DEF ToUpdate, ToAsk, Elements
  <2>2. Cardinality(ToUpdate) = Len(filesToUpdate)
    BY <2>1, DistinctCount DEF FilesInv, FilesTypeOK
  <2>3. confirmed \cap declined = {}
    <3>1. Decided \/ phase \in {"idle", "hashing"}
      BY DEF FilesInv, FilesTypeOK, Decided
    <3>2. QED
      BY <3>1 DEF FilesInv, ListsRight, Beginning
  <2>4. ASSUME phase = "installing"
        PROVE  /\ confirmed \cup declined = ToAsk
               /\ confirmed \subseteq ToUpdate
               /\ declined \cap ToUpdate = {}
    BY <2>1, <2>4 DEF FilesInv, ListsRight, Decided
  <2>5. QED
    BY <2>2, <2>3, <2>4 DEF EveryQuestionSettled
<1>2. QED
  BY <1>1, FilesInvariant, PTL

\* A success that is reported after no installation was cut off left nothing of
\* the old release but what the user is to keep.
THEOREM SuccessLeavesNothingOld == FilesSpec => []SuccessIsComplete
<1>1. FilesInv => SuccessIsComplete
  <2> SUFFICES ASSUME FilesInv, phase = "installed", ~interrupted, NEW f \in Files,
                      fs[f] # metaNew[f]
               PROVE  Kept(f)
    BY DEF SuccessIsComplete
  <2>1. pos > Len(filesToUpdate)
    BY DEF FilesInv, CopiesRight
  <2>2. f \in declined \cup editedLate \/ (fs[f] = realOld[f] /\ ~Candidate(f))
    BY <2>1, AllCopied
  <2>3. f \in pristine => AsInstalled(f, realOld, metaOld)
    BY DEF FilesInv, PristineRight, Decided
  <2>4. CASE fs[f] = realOld[f] /\ ~Candidate(f)
    <3>1. CASE UpToDate(f)
      BY <2>4, <3>1 DEF UpToDate
    <3>2. CASE UserModifiable(f)
      BY <3>2 DEF UserModifiable, Kept
    <3>3. CASE ~Outdated(f)
      BY <2>3, <2>4, <3>3 DEF Outdated, AsInstalled, Kept
    <3>4. QED
      BY <2>4, <3>1, <3>2, <3>3 DEF Candidate
  <2>5. QED
    BY <2>2, <2>4 DEF Kept
<1>2. QED
  BY <1>1, FilesInvariant, PTL

\* Only the copying of a file in the list changes files during an installation.
LEMMA FileChanges ==
    ASSUME FilesInv, [FilesNext]_filesVars, phase = "installing",
           NEW f \in Files, fs'[f] # fs[f]
    PROVE  f \in Elements(filesToUpdate) /\ f = Target
<1>1. CopyBegins \/ CopyEnds
  BY DEF FilesNext, filesVars, StartSession, HashFile, GiveUp, Validate, Answer, CopyFails,
     Succeed, CleanUp, UserEdits, NothingToDo
<1>2. fs \in [Files -> Contents] /\ pos \in Nat
  BY DEF FilesInv, FilesTypeOK
<1>3. pos # 0 /\ f = Target /\ pos <= Len(filesToUpdate)
  <2>1. CASE CopyBegins
    BY <1>2, <2>1 DEF CopyBegins
  <2>2. CASE CopyEnds
    BY <1>2, <2>2 DEF CopyEnds, FilesInv, CopiesRight
  <2>3. QED
    BY <1>1, <2>1, <2>2
<1>4. QED
  BY <1>2, <1>3, TargetFacts

\* A copy that is completed has the content the release's metadata names.
THEOREM InstalledIsVerified == FilesSpec => OnlyVerifiedFilesInstalled
<1>1. ASSUME FilesInv, [FilesNext]_filesVars, phase = "installing", copying, pos > 0,
             pos' = pos + 1
      PROVE  fs'[Target] = metaNew[Target]
  <2>1. pos \in Nat /\ fs \in [Files -> Contents] /\ newFiles = metaNew
        /\ pos <= Len(filesToUpdate)
    BY <1>1 DEF FilesInv, FilesTypeOK, ListsRight, Decided, CopiesRight
  <2>2. CopyEnds
    <3>1. pos' # pos /\ pos' # 0
      BY <1>1, <2>1
    <3>2. QED
      BY <1>1, <3>1 DEF FilesNext, filesVars, StartSession, HashFile, GiveUp, Validate, Answer,
         CopyBegins, CopyFails, Leave, Succeed, CleanUp, UserEdits, NothingToDo
  <2>3. Target \in Files
    BY <1>1, <2>1, TargetFacts
  <2>4. QED
    BY <1>1, <2>1, <2>2, <2>3 DEF CopyEnds
<1>2. FilesInv /\ [FilesNext]_filesVars =>
          [phase = "installing" /\ copying /\ pos > 0 /\ pos' = pos + 1
              => fs'[Target] = metaNew[Target]]_filesVars
  BY <1>1
<1>3. QED
  BY <1>2, FilesInvariant, PTL DEF FilesSpec, OnlyVerifiedFilesInstalled

\* What the user has edited is only overwritten or removed with consent.
THEOREM EditsNeedConsent == FilesSpec => EditsOverwrittenOnConsent
<1>1. ASSUME FilesInv, [FilesNext]_filesVars, NEW f \in Files, phase = "installing",
             fs'[f] # fs[f]
      PROVE  \/ realOld[f] \in {"none", metaOld[f], metaNew[f]}
             \/ kind[f] \in {"plat", "special"}
             \/ f \in confirmed
  <2>1. f \in Elements(filesToUpdate)
    BY <1>1, FileChanges
  <2>2. ~NeedToAsk(f) \/ f \in confirmed
    BY <1>1, <2>1 DEF FilesInv, ListsRight, Decided
  <2>3. QED
    BY <2>2 DEF NeedToAsk, IsPlatFile
<1>2. FilesInv /\ [FilesNext]_filesVars =>
          [\A f \in Files :
             phase = "installing" /\ fs'[f] # fs[f] /\ ~copying /\ f \notin editedLate =>
                \/ realOld[f] \in {"none", metaOld[f], metaNew[f]}
                \/ kind[f] \in {"plat", "special"}
                \/ f \in confirmed]_filesVars
  BY <1>1
<1>3. QED
  BY <1>2, FilesInvariant, PTL DEF FilesSpec, EditsOverwrittenOnConsent

\* No installation touches a file of the user's own that exists.
THEOREM UserFilesStay == FilesSpec => UserModifiableKept
<1>1. ASSUME FilesInv, [FilesNext]_filesVars, NEW f \in Files, phase = "installing",
             kind[f] = "modifiable", realOld[f] # "none"
      PROVE  fs'[f] = fs[f]
  <2>1. ~Candidate(f)
    BY <1>1 DEF Candidate, UserModifiable
  <2>2. f \notin Elements(filesToUpdate)
    BY <1>1, <2>1 DEF FilesInv, ListsRight, Decided
  <2>3. QED
    BY <1>1, <2>2, FileChanges
<1>2. FilesInv /\ [FilesNext]_filesVars =>
          [\A f \in Files :
             phase = "installing" /\ kind[f] = "modifiable" /\ realOld[f] # "none"
                => fs'[f] = fs[f]]_filesVars
  BY <1>1
<1>3. QED
  BY <1>2, FilesInvariant, PTL DEF FilesSpec, UserModifiableKept
=============================================================================
