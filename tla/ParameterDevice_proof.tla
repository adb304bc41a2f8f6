------------------------ MODULE ParameterDevice_proof ------------------------
(****************************************************************************)
(* Proofs about ParameterDevice, for any texts on the command line and any  *)
(* number of runs: the image in memory is that of the store, what was saved *)
(* is what a later run restores, and a damaged image changes no parameter.  *)
(****************************************************************************)
EXTENDS ParameterDevice, SequenceTheorems, TLAPS

--------------------------------------------------------------------------------
(* Walking an image *)

Places == 1..3

LEMMA ThreeRecords ==
  /\ Len(IDs) = 3 /\ DOMAIN IDs = Places
  /\ IDs[1] = "ReportingInterval" /\ IDs[2] = "TemperatureLimit" /\ IDs[3] = "OperatingMode"
BY DEF IDs, Places

LEMMA ImageParts ==
  ASSUME NEW m \in Image
  PROVE  /\ m.wrong \in SUBSET HeaderFault /\ m.pieces \in 0..6
         /\ m.records \in Seq(ImageRecord) /\ Len(m.records) = 3 /\ DOMAIN m.records = Places
         /\ m.records = [k \in Places |-> m.records[k]]
         /\ \A k \in Places : m.records[k] \in ImageRecord
<1>1. /\ m.wrong \in SUBSET HeaderFault /\ m.pieces \in 0..6
      /\ m.records \in Seq(ImageRecord) /\ Len(m.records) = 3
  BY ThreeRecords DEF Image, AllPieces
<1> HIDE DEF ImageRecord
<1>2. /\ DOMAIN m.records = Places /\ m.records = [k \in Places |-> m.records[k]]
      /\ \A k \in Places : m.records[k] \in ImageRecord
  BY <1>1 DEF Places
<1> QED  BY <1>1, <1>2

\* Three records are a sequence, whatever put them into a function.
LEMMA ThreeInSequence ==
  ASSUME NEW S, NEW f \in [1..3 -> S]
  PROVE  f \in Seq(S) /\ Len(f) = 3
<1>1. f \in Seq(S)
  <2>1. [1..3 -> S] \in {[1..n -> S] : n \in Nat}
    OBVIOUS
  <2> QED  BY <2>1, SeqDef
<1>2. Len(f) \in Nat /\ DOMAIN f = 1..Len(f)
  BY <1>1, LenProperties
<1>3. PICK n \in Nat : n = Len(f)
  BY <1>2
<1>4. \A k \in Int : k \in 1..n <=> k \in 1..3
  BY <1>2, <1>3
<1>5. n = 3
  <2>1. 3 \in 1..n
    BY <1>4
  <2>2. n \in 1..3 \/ n = 0
    BY <1>4
  <2> QED  BY <2>1, <2>2
<1> QED  BY <1>1, <1>3, <1>5

LEMMA MakeImage ==
  ASSUME NEW w \in SUBSET HeaderFault, NEW n \in 0..6, NEW f \in [Places -> ImageRecord]
  PROVE  [wrong |-> w, records |-> f, pieces |-> n] \in Image
<1>1. f \in Seq(ImageRecord) /\ Len(f) = 3
  BY ThreeInSequence DEF Places
<1> QED  BY <1>1, ThreeRecords DEF Image, AllPieces

\* Every record is sound if the walk comes to the end ...
LEMMA WalkTold ==
  ASSUME NEW m \in Image, NEW staging, walkRecords(m, staging) = "Ok"
  PROVE  headerStatus(m) = "Ok" /\ \A k \in Places : StatusOf(m, k, staging) = "Ok"
<1>1. headerStatus(m) = "Ok"
  BY DEF walkRecords
<1> DEFINE OK(k) == StatusOf(m, k, staging) = "Ok"
           Right(n) == (\A k \in 1..n : OK(k)) /\ (n < 3 => ~OK(n + 1))
           p == Processed(m, staging)
<1>2. p = CHOOSE n \in 0..3 : Right(n)
  BY <1>1, ImageParts DEF Processed
<1>3. walkRecords(m, staging) = IF p < 3 THEN StatusOf(m, p + 1, staging) ELSE "Ok"
  BY <1>1, ImageParts DEF walkRecords
<1> HIDE DEF OK, p
<1>4. \E n \in 0..3 : Right(n)
  <2>1. CASE ~OK(1)
    <3>1. Right(0)
      BY <2>1
    <3> QED  BY <3>1
  <2>2. CASE OK(1) /\ ~OK(2)
    <3>1. Right(1)
      BY <2>2
    <3> QED  BY <3>1
  <2>3. CASE OK(1) /\ OK(2) /\ ~OK(3)
    <3>1. Right(2)
      BY <2>3
    <3> QED  BY <3>1
  <2>4. CASE OK(1) /\ OK(2) /\ OK(3)
    <3>1. Right(3)
      BY <2>4
    <3> QED  BY <3>1
  <2> QED  BY <2>1, <2>2, <2>3, <2>4
<1>5. p \in 0..3 /\ Right(p)
  BY <1>2, <1>4
<1>6. ~ (p < 3)
  <2> SUFFICES ASSUME p < 3  PROVE FALSE
    OBVIOUS
  <2>1. StatusOf(m, p + 1, staging) = "Ok"
    BY <1>3
  <2> QED  BY <1>5, <2>1 DEF OK
<1>7. p = 3
  BY <1>5, <1>6
<1> QED  BY <1>1, <1>5, <1>7 DEF OK, Places

\* ... and the walk comes to the end if they are.
LEMMA WalkOK ==
  ASSUME NEW m \in Image, NEW staging, headerStatus(m) = "Ok",
         \A k \in Places : StatusOf(m, k, staging) = "Ok"
  PROVE  walkRecords(m, staging) = "Ok"
<1> DEFINE OK(k) == StatusOf(m, k, staging) = "Ok"
           Right(n) == (\A k \in 1..n : OK(k)) /\ (n < 3 => ~OK(n + 1))
           p == Processed(m, staging)
<1>1. p = CHOOSE n \in 0..3 : Right(n)
  BY ImageParts DEF Processed
<1>2. walkRecords(m, staging) = IF p < 3 THEN StatusOf(m, p + 1, staging) ELSE "Ok"
  BY ImageParts DEF walkRecords
<1>3. \A k \in Places : OK(k)
  OBVIOUS
<1> HIDE DEF OK, p
<1>4. Right(3)
  BY <1>3 DEF Places
<1>5. p \in 0..3 /\ Right(p)
  BY <1>1, <1>4
<1>6. ~ (p < 3)
  BY <1>3, <1>5 DEF Places
<1> QED  BY <1>2, <1>6

\* What a walk with decoding may find.
LEMMA WalkStatus ==
  ASSUME NEW m \in Image
  PROVE  walkRecords(m, TRUE) \in HeaderStatus \cup RecordStatus
<1>1. headerStatus(m) \in HeaderStatus
  BY DEF headerStatus, HeaderStatus
<1>2. \A k : StatusOf(m, k, TRUE) \in RecordStatus
  BY DEF StatusOf, decodeAndStage, RecordStatus
<1>3. "Ok" \in HeaderStatus
  BY DEF HeaderStatus
<1> QED  BY <1>1, <1>2, <1>3 DEF walkRecords

--------------------------------------------------------------------------------
(* The image of a store *)

\* create and update look at the values of a store only.
ImageOf(values) == create([values |-> values])

\* m holds v: nothing missing, nothing damaged, a record of its type at each place.
Holds(m, v) ==
  /\ m.wrong = {} /\ m.pieces = 6
  /\ DOMAIN m.records = Places
  /\ \A k \in Places :
       /\ m.records[k].id = IDs[k]
       /\ m.records[k].type = expectedMessageType[IDs[k]]
       /\ m.records[k].crcOk = TRUE
       /\ m.records[k].value = v[IDs[k]]

LEMMA CreateFacts ==
  ASSUME NEW s
  PROVE  /\ create(s) = ImageOf(s.values)
         /\ Holds(create(s), s.values)
         /\ \A k \in Places : create(s).records[k] = makeFrame(IDs[k], s)
<1>1. \A id : /\ makeFrame(id, s).id = id /\ makeFrame(id, s).type = expectedMessageType[id]
              /\ makeFrame(id, s).crcOk = TRUE /\ makeFrame(id, s).value = s.values[id]
  BY DEF makeFrame
<1>2. /\ DOMAIN create(s).records = Places
      /\ \A k \in Places : create(s).records[k] = makeFrame(IDs[k], s)
      /\ create(s).wrong = {} /\ create(s).pieces = 6
  BY ThreeRecords DEF create, AllPieces
<1>3. create(s) = ImageOf(s.values)
  BY DEF create, ImageOf, makeFrame
<1>4. Holds(create(s), s.values)
  <2>1. PICK m, v : m = create(s) /\ v = s.values
    OBVIOUS
  <2>2. Holds(m, v)
    BY <1>1, <1>2, <2>1 DEF Holds
  <2> QED  BY <2>1, <2>2
<1> QED  BY <1>2, <1>3, <1>4

LEMMA ImageOfFacts ==
  ASSUME NEW v
  PROVE  Holds(ImageOf(v), v)
<1>1. PICK s : s = [values |-> v]
  OBVIOUS
<1>2. s.values = v /\ ImageOf(v) = create(s)
  BY <1>1 DEF ImageOf
<1>3. Holds(create(s), s.values)
  BY CreateFacts
<1> QED  BY <1>2, <1>3

LEMMA IDsAreAll ==
  /\ \A k \in Places : IDs[k] \in ParameterID /\ IDs[k] # "Unknown"
  /\ \A id \in ParameterID : \E k \in Places : IDs[k] = id
  /\ \A j, k \in Places : IDs[j] = IDs[k] => j = k
  /\ \A id \in ParameterID : expectedMessageType[id] \in ParameterMessageType
<1>1. \A k \in Places : k = 1 \/ k = 2 \/ k = 3
  BY DEF Places
<1>2. 1 \in Places /\ 2 \in Places /\ 3 \in Places
  BY DEF Places
<1>3. \A id \in ParameterID : expectedMessageType[id] \in ParameterMessageType
  BY DEF ParameterID, expectedMessageType, ParameterMessageType
<1>4. \A j, k \in Places : IDs[j] = IDs[k] => j = k
  BY <1>1, ThreeRecords
<1>5. \A id \in ParameterID : \E k \in Places : IDs[k] = id
  BY <1>2, ThreeRecords DEF ParameterID
<1>6. \A k \in Places : IDs[k] \in ParameterID /\ IDs[k] # "Unknown"
  BY <1>1, ThreeRecords DEF ParameterID
<1> QED  BY <1>3, <1>4, <1>5, <1>6

LEMMA ImageOfIsImage ==
  ASSUME NEW v \in ParameterValues
  PROVE  ImageOf(v) \in Image
<1> DEFINE s == [values |-> v]
           f == create(s).records
<1>1. s.values = v /\ ImageOf(v) = create(s)
  BY DEF ImageOf
<1>2. \A k \in Places : f[k] \in ImageRecord
  <2> TAKE k \in Places
  <2>1. IDs[k] \in ParameterID /\ v[IDs[k]] \in Int
    BY IDsAreAll DEF ParameterValues
  <2>2. PICK id \in ParameterID, x \in Int : id = IDs[k] /\ x = v[IDs[k]]
    BY <2>1
  <2>3. f[k] = makeFrame(id, s) /\ s.values[id] = x
    BY <1>1, <2>2, CreateFacts
  <2>4. makeFrame(id, s) = [id |-> id, type |-> expectedMessageType[id], crcOk |-> TRUE,
                            value |-> x]
    BY <2>3 DEF makeFrame
  <2>5. makeFrame(id, s) \in ImageRecord
    <3>1. PICK type \in ParameterMessageType : type = expectedMessageType[id]
      BY IDsAreAll
    <3>2. [id |-> id, type |-> type, crcOk |-> TRUE, value |-> x] \in ImageRecord
      BY DEF ImageRecord
    <3> QED  BY <2>4, <3>1, <3>2
  <2> QED  BY <2>3, <2>5
<1>3. f = [k \in DOMAIN IDs |-> makeFrame(IDs[k], s)]
      /\ create(s) = [wrong |-> {}, records |-> f, pieces |-> 6]
  BY ThreeRecords DEF create, AllPieces
<1>4. f \in [Places -> ImageRecord]
  BY <1>2, <1>3, ThreeRecords
<1> HIDE DEF f
<1>5. {} \in SUBSET HeaderFault /\ 6 \in 0..6
  OBVIOUS
<1> QED  BY <1>1, <1>3, <1>4, <1>5, MakeImage

\* It is sound, for a walk of either kind.
LEMMA ImageOfIsSound ==
  ASSUME NEW v \in ParameterValues, NEW staging
  PROVE  walkRecords(ImageOf(v), staging) = "Ok"
<1> DEFINE m == ImageOf(v)
<1>2. m \in Image
  BY ImageOfIsImage
<1>0. Holds(m, v)
  BY ImageOfFacts
<1> HIDE DEF m
<1>3. m.wrong = {} /\ m.pieces = 6
  BY <1>0 DEF Holds
<1>4. \A k \in Places :
        /\ m.records[k].id = IDs[k] /\ m.records[k].type = expectedMessageType[IDs[k]]
        /\ m.records[k].crcOk = TRUE /\ m.records[k].value = v[IDs[k]]
  BY <1>0 DEF Holds
<1>5. \A k \in Places : StatusOf(m, k, staging) = "Ok"
  <2> TAKE k \in Places
  <2>1. /\ m.records[k].id = IDs[k] /\ m.records[k].type = expectedMessageType[IDs[k]]
        /\ m.records[k].crcOk = TRUE /\ m.records[k].value = v[IDs[k]]
    BY <1>4
  <2>2. \A j \in 1..(k - 1) : m.records[j].id # m.records[k].id
    <3> TAKE j \in 1..(k - 1)
    <3>1. j \in Places /\ j # k
      BY DEF Places
    <3>2. m.records[j].id = IDs[j]
      BY <1>4, <3>1
    <3> QED  BY <2>1, <3>1, <3>2, IDsAreAll
  <2>3. IDs[k] \in ParameterID /\ IDs[k] # "Unknown"
    BY IDsAreAll
  <2>4. validate(IDs[k], v[IDs[k]])
    BY <2>3 DEF ParameterValues
  <2>5. decodeAndStage(m.records[k]) = "Ok"
    BY <2>1, <2>4 DEF decodeAndStage
  <2>6. ~ (m.pieces < 2 * k - 1) /\ ~ (m.pieces < 2 * k)
    BY <1>3 DEF Places
  <2> QED  BY <2>1, <2>2, <2>3, <2>5, <2>6 DEF StatusOf
<1>6. headerStatus(m) = "Ok"
  BY <1>3 DEF headerStatus
<1> QED  BY <1>2, <1>5, <1>6, WalkOK DEF m

LEMMA ValuesOfImage ==
  ASSUME NEW v \in ParameterValues
  PROVE  ValuesOf(ImageOf(v)) = v
<1> DEFINE m == ImageOf(v)
<1>2. /\ DOMAIN m.records = Places
      /\ \A k \in Places : m.records[k].id = IDs[k] /\ m.records[k].value = v[IDs[k]]
  BY ImageOfFacts DEF Holds
<1> HIDE DEF m
<1>3. ASSUME NEW id \in ParameterID
      PROVE  ValuesOf(m)[id] = v[id]
  <2> DEFINE k == CHOOSE k \in DOMAIN m.records : m.records[k].id = id
  <2>1. \E j \in DOMAIN m.records : m.records[j].id = id
    BY <1>2, IDsAreAll
  <2>2. k \in DOMAIN m.records /\ m.records[k].id = id
    BY <2>1
  <2>3. ValuesOf(m)[id] = m.records[k].value
    BY DEF ValuesOf
  <2> HIDE DEF k
  <2> QED  BY <1>2, <2>2, <2>3
<1>4. v \in [ParameterID -> Int]
  BY DEF ParameterValues
<1>5. ValuesOf(m) = [id \in ParameterID |-> v[id]]
  <2>1. \A id \in ParameterID : ValuesOf(m)[id] = v[id]
    BY <1>3
  <2>2. ValuesOf(m) = [id \in ParameterID |-> ValuesOf(m)[id]]
    BY DEF ValuesOf
  <2> QED  BY <2>1, <2>2
<1> QED  BY <1>4, <1>5 DEF m

\* An update of one parameter takes the image of a store to that of the updated store.
LEMMA UpdateFollowsStore ==
  ASSUME NEW s, s.values \in ParameterValues, NEW id \in ParameterID,
         NEW t, NEW x, t.values = [s.values EXCEPT ![id] = x]
  PROVE  update(create(s), id, t) = create(t) /\ findRecord(create(s), id) # {}
<1> DEFINE m == create(s)
           v == s.values
<1>1. walkRecords(m, FALSE) = "Ok"
  <2>1. m = ImageOf(v)
    BY CreateFacts
  <2>2. walkRecords(ImageOf(v), FALSE) = "Ok"
    BY ImageOfIsSound
  <2> QED  BY <2>1, <2>2
<1>2. /\ DOMAIN m.records = Places
      /\ \A k \in Places : m.records[k] = makeFrame(IDs[k], s) /\ m.records[k].id = IDs[k]
  <2>1. PICK c, w : c = m /\ w = v
    OBVIOUS
  <2>2. Holds(c, w) /\ \A k \in Places : c.records[k] = makeFrame(IDs[k], s)
    BY <2>1, CreateFacts
  <2>3. DOMAIN c.records = Places /\ \A k \in Places : c.records[k].id = IDs[k]
    BY <2>2 DEF Holds
  <2> QED  BY <2>1, <2>2, <2>3
<1>3. findRecord(m, id) = {k \in Places : IDs[k] = id}
  BY <1>1, <1>2 DEF findRecord
<1>4. v \in [ParameterID -> Int]
  BY DEF ParameterValues
<1>5. \A k \in Places : (IF k \in findRecord(m, id) THEN makeFrame(id, t) ELSE m.records[k])
                        = makeFrame(IDs[k], t)
  <2> TAKE k \in Places
  <2>1. CASE IDs[k] = id
    BY <1>3, <2>1
  <2>2. CASE IDs[k] # id
    <3>1. t.values[IDs[k]] = v[IDs[k]]
      BY <1>4, <2>2, IDsAreAll
    <3> QED  BY <1>2, <1>3, <2>2, <3>1 DEF makeFrame
  <2> QED  BY <2>1, <2>2
<1>6. m = [wrong |-> {}, pieces |-> AllPieces, records |-> m.records]
  BY DEF create
<1>7. update(m, id, t) = [m EXCEPT !.records = [k \in Places |-> makeFrame(IDs[k], t)]]
  BY <1>2, <1>5 DEF update
<1> HIDE DEF m
<1>8. update(m, id, t) = create(t)
  <2> DEFINE f == [k \in Places |-> makeFrame(IDs[k], t)]
  <2>1. create(t) = [wrong |-> {}, pieces |-> AllPieces, records |-> f]
    BY ThreeRecords DEF create
  <2> HIDE DEF f
  <2>2. [m EXCEPT !.records = f] = [wrong |-> {}, pieces |-> AllPieces, records |-> f]
    <3>1. PICK e : e = [m EXCEPT !.records = f]
      OBVIOUS
    <3>2. DOMAIN m = {"wrong", "pieces", "records"} /\ m.wrong = {} /\ m.pieces = AllPieces
      BY <1>6
    <3>3. DOMAIN e = DOMAIN m
      BY <3>1
    <3>4. e = [g \in {"wrong", "pieces", "records"} |-> IF g = "records" THEN f ELSE m[g]]
      BY <3>1, <3>2, <3>3
    <3>5. e.wrong = {} /\ e.pieces = AllPieces /\ e.records = f
      BY <3>1, <3>2
    <3>6. e = [wrong |-> {}, pieces |-> AllPieces, records |-> f]
      BY <3>2, <3>3, <3>4, <3>5
    <3> QED  BY <3>1, <3>6
  <2> QED  BY <1>7, <2>1, <2>2 DEF f
<1>9. findRecord(m, id) # {}
  BY <1>3, IDsAreAll
<1> QED  BY <1>8, <1>9 DEF m

--------------------------------------------------------------------------------
(* Updating and restoring a store *)

LEMMA UpdatedFacts ==
  ASSUME NEW s \in Store, NEW id \in ParameterID, NEW x \in Int,
         NEW source \in ParameterSource,
         CheckUpdate(s, id, x, source) = "OK"
  PROVE  /\ Updated(s, id, x, source).values = [s.values EXCEPT ![id] = x]
         /\ Updated(s, id, x, source).sources = [s.sources EXCEPT ![id] = source]
         /\ Updated(s, id, x, source) \in Store
<1> DEFINE c == CopyValue(s, id, x)
           u == RecordUpdate(c, id, source)
<1>1. Updated(s, id, x, source) = u
  BY DEF Updated
<1>2. /\ s \in [values : ParameterValues, sources : [ParameterID -> ParameterSource],
                generation : Nat]
  BY DEF Store
<1>3. validate(id, x)
  BY DEF CheckUpdate
<1>4. /\ DOMAIN c = {"values", "sources", "generation"}
      /\ c.values = [s.values EXCEPT ![id] = x] /\ c.sources = s.sources
      /\ c.generation = s.generation
  BY <1>2 DEF CopyValue
<1> HIDE DEF c
<1>5. /\ DOMAIN u = {"values", "sources", "generation"}
      /\ u.values = c.values /\ u.sources = [s.sources EXCEPT ![id] = source]
      /\ u.generation = s.generation + 1
  BY <1>4 DEF RecordUpdate
<1> HIDE DEF u
<1>6. c.values \in ParameterValues
  <2>2. s.values \in [ParameterID -> Int] /\ \A i \in ParameterID : validate(i, s.values[i])
    BY <1>2 DEF ParameterValues
  <2>3. c.values \in [ParameterID -> Int]
    BY <1>4, <2>2
  <2>4. \A i \in ParameterID : validate(i, c.values[i])
    BY <1>3, <1>4, <2>2
  <2> QED  BY <2>3, <2>4 DEF ParameterValues
<1>7. u.sources \in [ParameterID -> ParameterSource] /\ u.generation \in Nat
  BY <1>2, <1>5
<1>8. u = [f \in {"values", "sources", "generation"} |-> u[f]]
  <2>1. \E a : u = [f \in {"values", "sources", "generation"} |-> a[f]]
    <3>1. \E a : u = [a EXCEPT !.generation = s.generation + 1]
      BY <1>4, <1>5 DEF u, RecordUpdate
    <3> QED  BY <1>5, <3>1
  <2> QED  BY <2>1
<1>9. u \in Store
  BY <1>5, <1>6, <1>7, <1>8 DEF Store
<1> QED  BY <1>1, <1>4, <1>5, <1>9

\* Records are staged in their order.
LEMMA StageThree ==
  ASSUME NEW s, NEW r, Len(r) = 3
  PROVE  Stage(s, r) =
           Updated(Updated(Updated(s, r[1].id, r[1].value, "PersistentStorage"),
                           r[2].id, r[2].value, "PersistentStorage"),
                   r[3].id, r[3].value, "PersistentStorage")
<1> DEFINE Up(x, n) == Updated(x, r[n].id, r[n].value, "PersistentStorage")
           Step(f) == [n \in 0..Len(r) |-> IF n = 0 THEN s ELSE Up(f[n - 1], n)]
           staged == CHOOSE f : f = Step(f)
<1>1. Stage(s, r) = staged[Len(r)]
  BY DEF Stage
<1> HIDE DEF Up
<1> DEFINE g == [n \in 0..3 |-> CASE n = 0 -> s [] n = 1 -> Up(s, 1)
                                  [] n = 2 -> Up(Up(s, 1), 2)
                                  [] OTHER -> Up(Up(Up(s, 1), 2), 3)]
<1>2. g = Step(g)
  <2>1. \A n \in 0..3 : n = 0 \/ n = 1 \/ n = 2 \/ n = 3
    OBVIOUS
  <2>2. g[0] = s /\ g[1] = Up(s, 1) /\ g[2] = Up(Up(s, 1), 2) /\ g[3] = Up(Up(Up(s, 1), 2), 3)
    OBVIOUS
  <2>3. DOMAIN g = 0..3
    OBVIOUS
  <2> HIDE DEF g
  <2>4. \A n \in 0..3 : g[n] = IF n = 0 THEN s ELSE Up(g[n - 1], n)
    BY <2>1, <2>2
  <2>5. g = [n \in 0..3 |-> g[n]]
    BY DEF g
  <2>6. g = [n \in 0..3 |-> IF n = 0 THEN s ELSE Up(g[n - 1], n)]
    BY <2>4, <2>5
  <2> QED  BY <2>6
<1> HIDE DEF g
<1>3. staged = Step(staged)
  <2> HIDE DEF Step
  <2>1. \E f : f = Step(f)
    BY <1>2
  <2> QED  BY <2>1
<1> HIDE DEF staged
<1>4. staged[0] = s /\ staged[1] = Up(staged[0], 1) /\ staged[2] = Up(staged[1], 2)
      /\ staged[3] = Up(staged[2], 3)
  <2>1. \A n \in 0..3 : staged[n] = IF n = 0 THEN s ELSE Up(staged[n - 1], n)
    BY <1>3
  <2> QED  BY <2>1
<1> QED  BY <1>1, <1>4 DEF Up

LEMMA NewStoreIsStore == NewStore \in Store
<1>1. defaultValue = [id \in ParameterID |-> defaultValue[id]]
  BY DEF defaultValue, ParameterID
<1>2. /\ defaultValue["ReportingInterval"] \in ValidValues["ReportingInterval"]
      /\ defaultValue["TemperatureLimit"] \in ValidValues["TemperatureLimit"]
      /\ defaultValue["OperatingMode"] \in ValidValues["OperatingMode"]
      /\ defaultValue["ReportingInterval"] \in Int /\ defaultValue["TemperatureLimit"] \in Int
      /\ defaultValue["OperatingMode"] \in Int
  BY DEF defaultValue, ValidValues
<1>3. \A id \in ParameterID : defaultValue[id] \in ValidValues[id] /\ defaultValue[id] \in Int
  BY <1>2, Zenon DEF ParameterID
<1>4. defaultValue \in ParameterValues
  BY <1>1, <1>3 DEF ParameterValues, validate
<1> QED  BY <1>4 DEF NewStore, Store, ParameterSource

\* A sound image replaces every compiled default, whose provenance is weakest.
LEMMA RestoreFacts ==
  ASSUME NEW v \in ParameterValues
  PROVE  /\ restore(ImageOf(v), NewStore) \in Store
         /\ restore(ImageOf(v), NewStore).values = v
         /\ \A id \in ParameterID :
              restore(ImageOf(v), NewStore).sources[id] = "PersistentStorage"
<1> DEFINE r == ImageOf(v).records
           Put(s, k) == Updated(s, IDs[k], v[IDs[k]], "PersistentStorage")
           s1 == Put(NewStore, 1)
           s2 == Put(s1, 2)
           s3 == Put(s2, 3)
           Low(s) == \A id \in ParameterID :
                       s.sources[id] \in {"CompiledDefault", "PersistentStorage"}
<1>1. restore(ImageOf(v), NewStore) = Stage(NewStore, r)
  BY ImageOfIsSound DEF restore, restoreStatus
<1>2. Len(r) = 3 /\ \A k \in Places : r[k].id = IDs[k] /\ r[k].value = v[IDs[k]]
  BY ImageOfIsImage, ImageParts, ImageOfFacts DEF Holds
<1>3. Stage(NewStore, r) = s3
  <2>1. 1 \in Places /\ 2 \in Places /\ 3 \in Places
    BY DEF Places
  <2> HIDE DEF r
  <2> QED  BY <1>2, <2>1, StageThree
<1> HIDE DEF r
<1>4. NewStore \in Store /\ Low(NewStore)
  BY NewStoreIsStore DEF NewStore
<1> HIDE DEF Put
<1>5. ASSUME NEW s \in Store, Low(s), NEW k \in Places
      PROVE  /\ Put(s, k) \in Store /\ Low(Put(s, k))
             /\ Put(s, k).values = [s.values EXCEPT ![IDs[k]] = v[IDs[k]]]
             /\ Put(s, k).sources = [s.sources EXCEPT ![IDs[k]] = "PersistentStorage"]
  <2>1. PICK id \in ParameterID, x \in Int : id = IDs[k] /\ x = v[IDs[k]]
    BY IDsAreAll DEF ParameterValues
  <2>2. validate(id, x)
    BY <2>1 DEF ParameterValues
  <2>3. precedence["PersistentStorage"] = 1 /\ precedence[s.sources[id]] \in {0, 1}
    BY <1>5 DEF precedence
  <2>4. CheckUpdate(s, id, x, "PersistentStorage") = "OK"
    BY <2>2, <2>3 DEF CheckUpdate
  <2>5. /\ Put(s, k) \in Store
        /\ Put(s, k).values = [s.values EXCEPT ![id] = x]
        /\ Put(s, k).sources = [s.sources EXCEPT ![id] = "PersistentStorage"]
    <3>1. "PersistentStorage" \in ParameterSource
      BY DEF ParameterSource
    <3>2. Put(s, k) = Updated(s, id, x, "PersistentStorage")
      BY <2>1 DEF Put
    <3> QED  BY <2>4, <3>1, <3>2, UpdatedFacts
  <2>6. s.sources \in [ParameterID -> ParameterSource]
    BY DEF Store
  <2>7. Low(Put(s, k))
    BY <1>5, <2>5, <2>6
  <2> QED  BY <2>1, <2>5, <2>7
<1>6. 1 \in Places /\ 2 \in Places /\ 3 \in Places
  BY DEF Places
<1> HIDE DEF Low
<1>7. /\ s1 \in Store /\ Low(s1)
      /\ s1.values = [NewStore.values EXCEPT ![IDs[1]] = v[IDs[1]]]
      /\ s1.sources = [NewStore.sources EXCEPT ![IDs[1]] = "PersistentStorage"]
  BY <1>4, <1>5, <1>6
<1> HIDE DEF s1
<1>8. /\ s2 \in Store /\ Low(s2)
      /\ s2.values = [s1.values EXCEPT ![IDs[2]] = v[IDs[2]]]
      /\ s2.sources = [s1.sources EXCEPT ![IDs[2]] = "PersistentStorage"]
  BY <1>5, <1>6, <1>7
<1> HIDE DEF s2
<1>9. /\ s3 \in Store
      /\ s3.values = [s2.values EXCEPT ![IDs[3]] = v[IDs[3]]]
      /\ s3.sources = [s2.sources EXCEPT ![IDs[3]] = "PersistentStorage"]
  BY <1>5, <1>6, <1>8
<1> HIDE DEF s3
<1>10. \A s \in Store : /\ s.values \in [ParameterID -> Int]
                        /\ s.sources \in [ParameterID -> ParameterSource]
  BY DEF Store, ParameterValues
<1>11. \A id \in ParameterID : s3.values[id] = v[id] /\ s3.sources[id] = "PersistentStorage"
  <2> TAKE id \in ParameterID
  <2>1. /\ s1.values \in [ParameterID -> Int] /\ s2.values \in [ParameterID -> Int]
        /\ s3.values \in [ParameterID -> Int] /\ NewStore.values \in [ParameterID -> Int]
        /\ s1.sources \in [ParameterID -> ParameterSource]
        /\ s2.sources \in [ParameterID -> ParameterSource]
        /\ s3.sources \in [ParameterID -> ParameterSource]
        /\ NewStore.sources \in [ParameterID -> ParameterSource]
    BY <1>4, <1>7, <1>8, <1>9, <1>10
  <2>2. id = IDs[1] \/ id = IDs[2] \/ id = IDs[3]
    BY ThreeRecords DEF ParameterID
  <2>3. IDs[1] # IDs[2] /\ IDs[1] # IDs[3] /\ IDs[2] # IDs[3]
    BY ThreeRecords
  <2>4. CASE id = IDs[3]
    BY <1>9, <2>1, <2>4
  <2>5. CASE id = IDs[2]
    BY <1>8, <1>9, <2>1, <2>3, <2>5
  <2>6. CASE id = IDs[1]
    <3>1. s1.values[id] = v[id] /\ s1.sources[id] = "PersistentStorage"
      BY <1>7, <2>1, <2>6
    <3>2. s2.values[id] = s1.values[id] /\ s2.sources[id] = s1.sources[id]
      BY <1>8, <2>1, <2>3, <2>6
    <3>3. s3.values[id] = s2.values[id] /\ s3.sources[id] = s2.sources[id]
      BY <1>9, <2>1, <2>3, <2>6
    <3> QED  BY <3>1, <3>2, <3>3
  <2> QED  BY <2>2, <2>4, <2>5, <2>6
<1>12. s3.values = v
  <2>1. v \in [ParameterID -> Int] /\ s3.values \in [ParameterID -> Int]
    BY <1>9, <1>10 DEF ParameterValues
  <2> QED  BY <1>11, <2>1
<1> QED  BY <1>1, <1>3, <1>9, <1>11, <1>12

--------------------------------------------------------------------------------
(* Damage *)

Shape(m) ==
    /\ m.records[1].id \in {"ReportingInterval", "Unknown"}
    /\ m.records[2].id \in {"TemperatureLimit", "ReportingInterval"}

\* What the inspection tool leaves of the records it found.
Spoilt(m) ==
    /\ Shape(m)
    /\ \/ m.records[1].id = "Unknown" \/ m.records[2].id = "ReportingInterval"
       \/ ~m.records[1].crcOk \/ m.records[1].type # "UInt32" \/ m.records[1].value = 0

\* An image with anything wrong in its header, its length or its records is refused.
LEMMA SpoiltIsRefused ==
  ASSUME NEW m \in Image, m.wrong # {} \/ m.pieces # 6 \/ Spoilt(m)
  PROVE  restoreStatus(m) # "Ok"
<1> SUFFICES ASSUME restoreStatus(m) = "Ok"  PROVE FALSE
  OBVIOUS
<1>1. headerStatus(m) = "Ok" /\ \A k \in Places : StatusOf(m, k, TRUE) = "Ok"
  BY WalkTold DEF restoreStatus
<1>2. /\ StatusOf(m, 1, TRUE) = "Ok" /\ StatusOf(m, 2, TRUE) = "Ok" /\ StatusOf(m, 3, TRUE) = "Ok"
  <2>1. 1 \in Places /\ 2 \in Places /\ 3 \in Places
    BY DEF Places
  <2> QED  BY <1>1, <2>1
<1>3. m.wrong = {}
  BY <1>1, ImageParts DEF headerStatus, HeaderFault
<1>4. m.pieces = 6
  <2>1. ~ (m.pieces < 2 * 3)
    BY <1>2 DEF StatusOf
  <2>2. PICK n \in 0..6 : n = m.pieces
    BY ImageParts
  <2>3. n = 6
    BY <2>1, <2>2
  <2> QED  BY <2>2, <2>3
<1>5. CASE Spoilt(m)
  <2>1. m.records[1].id = "ReportingInterval"
    BY <1>2, <1>5 DEF Spoilt, Shape, StatusOf
  <2>2. m.records[2].id # "ReportingInterval"
    BY <1>2, <2>1 DEF StatusOf
  <2>3. m.records[1].crcOk /\ decodeAndStage(m.records[1]) = "Ok"
    BY <1>2 DEF StatusOf
  <2>4. m.records[1].type = "UInt32"
    BY <2>1, <2>3 DEF decodeAndStage, expectedMessageType
  <2>5. m.records[1].value # 0
    <3>1. validate("ReportingInterval", m.records[1].value)
      BY <2>1, <2>3 DEF decodeAndStage
    <3>2. 0 \notin ValidValues["ReportingInterval"]
      BY DEF ValidValues
    <3> QED  BY <3>1, <3>2 DEF validate
  <2> QED  BY <1>5, <2>1, <2>2, <2>3, <2>4, <2>5 DEF Spoilt
<1> QED  BY <1>3, <1>4, <1>5

\* One record with another value in one field ...
LEMMA FieldFacts ==
  ASSUME NEW r \in ImageRecord, NEW field \in {"id", "type", "crcOk", "value"}, NEW x,
         \/ field = "id" /\ x \in ParameterID \cup {"Unknown"}
         \/ field = "type" /\ x \in ParameterMessageType
         \/ field = "crcOk" /\ x \in BOOLEAN
         \/ field = "value" /\ x \in Int
  PROVE  /\ [r EXCEPT ![field] = x] \in ImageRecord
         /\ [r EXCEPT ![field] = x][field] = x
         /\ field # "id" => [r EXCEPT ![field] = x].id = r.id
<1> DEFINE e == [r EXCEPT ![field] = x]
<1>1. r \in [id : ParameterID \cup {"Unknown"}, type : ParameterMessageType,
             crcOk : BOOLEAN, value : Int]
  BY DEF ImageRecord
<1>2. /\ DOMAIN r = {"id", "type", "crcOk", "value"}
      /\ r.id \in ParameterID \cup {"Unknown"} /\ r.type \in ParameterMessageType
      /\ r.crcOk \in BOOLEAN /\ r.value \in Int
  BY <1>1
<1>3. /\ DOMAIN e = {"id", "type", "crcOk", "value"} /\ e[field] = x
      /\ \A g \in {"id", "type", "crcOk", "value"} \ {field} : e[g] = r[g]
      /\ e = [g \in {"id", "type", "crcOk", "value"} |-> e[g]]
  BY <1>2
<1> HIDE DEF e
<1>4. /\ e.id \in ParameterID \cup {"Unknown"} /\ e.type \in ParameterMessageType
      /\ e.crcOk \in BOOLEAN /\ e.value \in Int
  BY <1>2, <1>3
<1>5. e = [id |-> e.id, type |-> e.type, crcOk |-> e.crcOk, value |-> e.value]
  BY <1>3
<1>6. e \in ImageRecord
  <2>1. PICK a \in ParameterID \cup {"Unknown"}, b \in ParameterMessageType,
             c \in BOOLEAN, d \in Int : a = e.id /\ b = e.type /\ c = e.crcOk /\ d = e.value
    BY <1>4
  <2>2. [id |-> a, type |-> b, crcOk |-> c, value |-> d] \in ImageRecord
    BY DEF ImageRecord
  <2> QED  BY <1>5, <2>1, <2>2
<1> QED  BY <1>3, <1>6 DEF e

\* ... and an image with such records.
LEMMA DamagedRecord ==
  ASSUME NEW m \in Image, NEW field \in {"id", "type", "crcOk", "value"}, NEW x,
         \/ field = "id" /\ x \in ParameterID \cup {"Unknown"}
         \/ field = "type" /\ x \in ParameterMessageType
         \/ field = "crcOk" /\ x \in BOOLEAN
         \/ field = "value" /\ x \in Int,
         NEW ids
  PROVE  /\ Damage(m, ids, field, x) \in Image
         /\ \A k \in Places :
              IF m.records[k].id \in ids
                THEN /\ Damage(m, ids, field, x).records[k][field] = x
                     /\ field # "id" => Damage(m, ids, field, x).records[k].id = m.records[k].id
                ELSE Damage(m, ids, field, x).records[k] = m.records[k]
<1>1. \A r \in ImageRecord : /\ [r EXCEPT ![field] = x] \in ImageRecord
                             /\ [r EXCEPT ![field] = x][field] = x
                             /\ field # "id" => [r EXCEPT ![field] = x].id = r.id
  BY FieldFacts
<1> DEFINE f == [k \in Places |-> IF m.records[k].id \in ids
                                  THEN [m.records[k] EXCEPT ![field] = x]
                                  ELSE m.records[k]]
           d == Damage(m, ids, field, x)
<1>2. \A k \in Places : m.records[k] \in ImageRecord
  BY ImageParts
<1>3. d = [m EXCEPT !.records = f]
  BY ImageParts DEF Damage
<1>4. m \in [wrong : SUBSET HeaderFault, records : Seq(ImageRecord), pieces : 0..6]
  BY ThreeRecords DEF Image, AllPieces
<1> HIDE DEF ImageRecord
<1>5. f \in [Places -> ImageRecord]
  BY <1>1, <1>2
<1> HIDE DEF f, d
<1>6. d.wrong = m.wrong /\ d.pieces = m.pieces /\ d.records = f
  BY <1>3, <1>4
<1>7. d = [wrong |-> d.wrong, records |-> d.records, pieces |-> d.pieces]
  BY <1>3, <1>4, <1>6
<1>8. d \in Image
  <2>1. PICK w \in SUBSET HeaderFault, n \in 0..6 : w = d.wrong /\ n = d.pieces
    BY <1>4, <1>6
  <2>2. d = [wrong |-> w, records |-> f, pieces |-> n]
    BY <1>6, <1>7, <2>1
  <2>3. [wrong |-> w, records |-> f, pieces |-> n] \in Image
    BY <1>5, <2>1, MakeImage
  <2> QED  BY <2>2, <2>3
<1>9. \A k \in Places : d.records[k] = IF m.records[k].id \in ids
                                       THEN [m.records[k] EXCEPT ![field] = x]
                                       ELSE m.records[k]
  BY <1>6 DEF f
<1>10. \A k \in Places :
              IF m.records[k].id \in ids
                THEN /\ d.records[k][field] = x
                     /\ field # "id" => d.records[k].id = m.records[k].id
                ELSE d.records[k] = m.records[k]
  BY <1>1, <1>2, <1>9
<1> QED  BY <1>8, <1>10 DEF d

\* A header or an end that is damaged keeps its records ...
LEMMA RecordsKept ==
  ASSUME NEW m \in Image, NEW mode \in HeaderCorruption \cup {"Truncate"},
         NEW c \in corruptImage(m, mode)
  PROVE  c \in Image /\ c.records = m.records
<1>1. m \in [wrong : SUBSET HeaderFault, records : Seq(ImageRecord), pieces : 0..6]
      /\ Len(m.records) = Len(IDs)
  BY ThreeRecords DEF Image, AllPieces
<1>2. CASE mode = "Truncate"
  <2>1. c \in Truncated(m)
    BY <1>2 DEF corruptImage, HeaderCorruption
  <2>2. PICK p \in 0..6 : c = [m EXCEPT !.pieces = p]
    BY <2>1, ThreeRecords DEF Truncated, AllPieces
  <2> QED  BY <1>1, <2>2, ThreeRecords DEF Image, AllPieces
<1>3. CASE mode \in HeaderCorruption
  <2>1. c = damageHeader(m, mode)
    BY <1>3 DEF corruptImage
  <2>2. PICK w \in SUBSET HeaderFault : c = [m EXCEPT !.wrong = w]
    BY <1>1, <1>3, <2>1 DEF damageHeader, HeaderCorruption, HeaderFault, Toggle
  <2> QED  BY <1>1, <2>2, ThreeRecords DEF Image, AllPieces
<1> QED  BY <1>2, <1>3

\* ... and a record that was found and damaged leaves the records spoilt.
LEMMA DamageSpoils ==
  ASSUME NEW m \in Image, Shape(m), walkRecords(m, FALSE) = "Ok", NEW mode \in RecordCorruption
  PROVE  damageRecord(m, mode) \in Image /\ Spoilt(damageRecord(m, mode))
<1> DEFINE c == damageRecord(m, mode)
<1>1. m.records[1].id = "ReportingInterval" /\ m.records[2].id = "TemperatureLimit"
  <2>0. 1 \in Places /\ 2 \in Places
    BY DEF Places
  <2>1. StatusOf(m, 1, FALSE) = "Ok" /\ StatusOf(m, 2, FALSE) = "Ok"
    BY <2>0, WalkTold
  <2>2. m.records[1].id # "Unknown"
    BY <2>1 DEF StatusOf
  <2>3. m.records[2].id # m.records[1].id
    BY <2>1 DEF StatusOf
  <2> QED  BY <2>2, <2>3 DEF Shape
<1>2. 1 \in Places /\ 2 \in Places
  BY DEF Places
<1>6. CASE mode = "BadPayload"
  <2>1. PICK x \in BOOLEAN : ~x /\ c = Damage(m, {"ReportingInterval"}, "crcOk", x)
    BY <1>6 DEF damageRecord
  <2>2. /\ c \in Image
        /\ \A k \in Places :
             IF m.records[k].id \in {"ReportingInterval"}
               THEN /\ c.records[k]["crcOk"] = x
                    /\ "crcOk" # "id" => c.records[k].id = m.records[k].id
               ELSE c.records[k] = m.records[k]
    BY <2>1, DamagedRecord
  <2>3. ~c.records[1].crcOk /\ c.records[1].id = m.records[1].id
        /\ c.records[2] = m.records[2]
    BY <1>1, <1>2, <2>1, <2>2
  <2> HIDE DEF c
  <2>4. Spoilt(c)
    BY <1>1, <2>3 DEF Spoilt, Shape
  <2> QED  BY <2>2, <2>4 DEF c
<1>7. CASE mode = "UnknownParameter"
  <2>1. c = Damage(m, {"ReportingInterval"}, "id", "Unknown")
    BY <1>7 DEF damageRecord
  <2>2. "Unknown" \in ParameterID \cup {"Unknown"}
    BY DEF ParameterID, ParameterMessageType
  <2>3. /\ c \in Image
        /\ \A k \in Places :
             IF m.records[k].id \in {"ReportingInterval"}
               THEN /\ c.records[k]["id"] = "Unknown"
                    /\ "id" # "id" => c.records[k].id = m.records[k].id
               ELSE c.records[k] = m.records[k]
    BY <2>1, <2>2, DamagedRecord
  <2>4. c.records[1].id = "Unknown"
        /\ c.records[2] = m.records[2]
    BY <1>1, <1>2, <2>3
  <2> HIDE DEF c
  <2>5. Spoilt(c)
    BY <1>1, <2>4 DEF Spoilt, Shape
  <2> QED  BY <2>3, <2>5 DEF c
<1>8. CASE mode = "DuplicateParameter"
  <2>1. c = Damage(m, {"TemperatureLimit"}, "id", "ReportingInterval")
    BY <1>8 DEF damageRecord
  <2>2. "ReportingInterval" \in ParameterID \cup {"Unknown"}
    BY DEF ParameterID, ParameterMessageType
  <2>3. /\ c \in Image
        /\ \A k \in Places :
             IF m.records[k].id \in {"TemperatureLimit"}
               THEN /\ c.records[k]["id"] = "ReportingInterval"
                    /\ "id" # "id" => c.records[k].id = m.records[k].id
               ELSE c.records[k] = m.records[k]
    BY <2>1, <2>2, DamagedRecord
  <2>4. c.records[2].id = "ReportingInterval"
        /\ c.records[1] = m.records[1]
    BY <1>1, <1>2, <2>3
  <2> HIDE DEF c
  <2>5. Spoilt(c)
    BY <1>1, <2>4 DEF Spoilt, Shape
  <2> QED  BY <2>3, <2>5 DEF c
<1>9. CASE mode = "TypeMismatch"
  <2>1. c = Damage(m, {"ReportingInterval"}, "type", "Float32")
    BY <1>9 DEF damageRecord
  <2>2. "Float32" \in ParameterMessageType
    BY DEF ParameterID, ParameterMessageType
  <2>3. /\ c \in Image
        /\ \A k \in Places :
             IF m.records[k].id \in {"ReportingInterval"}
               THEN /\ c.records[k]["type"] = "Float32"
                    /\ "type" # "id" => c.records[k].id = m.records[k].id
               ELSE c.records[k] = m.records[k]
    BY <2>1, <2>2, DamagedRecord
  <2>4. c.records[1].type = "Float32" /\ c.records[1].id = m.records[1].id
        /\ c.records[2] = m.records[2]
    BY <1>1, <1>2, <2>3
  <2> HIDE DEF c
  <2>5. Spoilt(c)
    BY <1>1, <2>4 DEF Spoilt, Shape
  <2> QED  BY <2>3, <2>5 DEF c
<1>10. CASE mode = "InvalidValue"
  <2>1. c = Damage(m, {"ReportingInterval"}, "value", 0)
    BY <1>10 DEF damageRecord
  <2>2. 0 \in Int
    BY DEF ParameterID, ParameterMessageType
  <2>3. /\ c \in Image
        /\ \A k \in Places :
             IF m.records[k].id \in {"ReportingInterval"}
               THEN /\ c.records[k]["value"] = 0
                    /\ "value" # "id" => c.records[k].id = m.records[k].id
               ELSE c.records[k] = m.records[k]
    BY <2>1, <2>2, DamagedRecord
  <2>4. c.records[1].value = 0 /\ c.records[1].id = m.records[1].id
        /\ c.records[2] = m.records[2]
    BY <1>1, <1>2, <2>3
  <2> HIDE DEF c
  <2>5. Spoilt(c)
    BY <1>1, <2>4 DEF Spoilt, Shape
  <2> QED  BY <2>3, <2>5 DEF c
<1> QED
  BY <1>6, <1>7, <1>8, <1>9, <1>10 DEF RecordCorruption

--------------------------------------------------------------------------------
(* The inductive invariant *)

\* Once the store has been restored, and whatever is then asked of it, the
\* image in memory is the one that create would make of it.
ImageFollows == pc # "off" => image = ImageOf(parameters.values)

\* At path are the records that a run saved there, or records that are spoilt;
\* the header and the length are anything that damages make of them.
FileKnown ==
    /\ file = None <=> saved = None
    /\ saved # None => /\ saved.image = ImageOf(saved.values)
                       /\ file.records = saved.image.records \/ Spoilt(file)

\* A run starts from the defaults, and takes over what was saved or nothing.
RunKnown ==
    /\ pc = "restore" => parameters = NewStore
    /\ pc = "ReportingInterval" =>
         \/ /\ options.restore /\ saved # None /\ file = saved.image
            /\ restoreResult = "Ok" /\ parameters.values = saved.values
            /\ \A id \in ParameterID : parameters.sources[id] = "PersistentStorage"
         \/ /\ parameters = NewStore
            /\ options.restore /\ saved # None /\ file = saved.image =>
                 restoreResult \in {"OpenFailed", "ReadFailed"}

DeviceInv == TypeOK /\ ImageFollows /\ FileKnown /\ RunKnown

LEMMA ValuesOfStore ==
  ASSUME NEW s \in Store
  PROVE  s.values \in ParameterValues /\ create(s) = ImageOf(s.values)
         /\ ImageOf(s.values) \in Image
<1>1. s.values \in ParameterValues
  BY DEF Store
<1>2. create(s) = ImageOf(s.values)
  BY CreateFacts
<1> QED  BY <1>1, <1>2, ImageOfIsImage

LEMMA NoneIsNothing ==
  /\ None \notin Image /\ None \notin [image : Image, values : ParameterValues]
  /\ MaxRuns \in Nat /\ MaxDamages \in Nat
  /\ \A id \in ParameterID : None \in Texts[id]
  /\ \A id \in ParameterID : \A t \in Texts[id] \ {None} : t.parsed \in BOOLEAN /\ t.value \in Int
BY DeviceAssumption DEF DeviceAssumption

LEMMA NoOptionsAreOptions == NoOptions \in Options
<1> DEFINE none == [id \in ParameterID |-> None]
           T == UNION {Texts[id] : id \in ParameterID}
<1>1. "ReportingInterval" \in ParameterID
  BY DEF ParameterID
<1>2. None \in T
  BY <1>1, NoneIsNothing
<1> HIDE DEF T
<1>3. none \in [ParameterID -> T] /\ \A id \in ParameterID : none[id] \in Texts[id]
  BY <1>2, NoneIsNothing
<1> HIDE DEF none
<1>4. none \in {s \in [ParameterID -> T] : \A id \in ParameterID : s[id] \in Texts[id]}
  BY <1>3
<1>5. NoOptions = [restore |-> TRUE, save |-> FALSE, set |-> none]
  BY DEF NoOptions, none
<1> QED  BY <1>4, <1>5 DEF Options, T

LEMMA OptionParts ==
  ASSUME NEW o \in Options
  PROVE  o.restore \in BOOLEAN /\ o.save \in BOOLEAN
         /\ \A id \in ParameterID : o.set[id] \in Texts[id]
BY DEF Options

LEMMA InitDevice == Init => DeviceInv
<1> SUFFICES ASSUME Init  PROVE DeviceInv
  OBVIOUS
<1>1. /\ file = None /\ runs = 0 /\ damages = 0 /\ pc = "off" /\ options = NoOptions
      /\ parameters = NewStore /\ image = create(NewStore)
      /\ restoreResult = None /\ saved = None
  BY DEF Init
<1>2. NewStore \in Store /\ create(NewStore) \in Image
  BY NewStoreIsStore, ValuesOfStore
<1>3. TypeOK
  BY <1>1, <1>2, NoOptionsAreOptions, NoneIsNothing DEF TypeOK
<1>4. ImageFollows /\ FileKnown /\ RunKnown
  BY <1>1 DEF ImageFollows, FileKnown, RunKnown
<1> QED  BY <1>3, <1>4 DEF DeviceInv

LEMMA StartKeeps ==
  ASSUME DeviceInv, Start
  PROVE  DeviceInv'
<1>1. /\ pc = "off" /\ runs < MaxRuns /\ runs' = runs + 1 /\ options' \in Options
      /\ parameters' = NewStore /\ image' = create(NewStore) /\ pc' = "restore"
      /\ file' = file /\ damages' = damages /\ restoreResult' = None /\ saved' = saved
  BY DEF Start
<1>2. NewStore \in Store /\ create(NewStore) \in Image
      /\ create(NewStore) = ImageOf(NewStore.values)
  BY NewStoreIsStore, ValuesOfStore
<1>3. TypeOK'
  <2>1. runs' \in 0..MaxRuns
    BY <1>1, NoneIsNothing DEF DeviceInv, TypeOK
  <2> QED  BY <1>1, <1>2, <2>1 DEF DeviceInv, TypeOK
<1>4. ImageFollows' /\ RunKnown'
  BY <1>1, <1>2 DEF ImageFollows, RunKnown
<1>5. FileKnown'
  BY <1>1 DEF DeviceInv, FileKnown
<1> QED  BY <1>3, <1>4, <1>5 DEF DeviceInv

\* An image that is not exactly what was saved is refused.
LEMMA OtherIsRefused ==
  ASSUME TypeOK, FileKnown, saved # None, file # saved.image
  PROVE  restoreStatus(file) # "Ok"
<1>1. /\ file \in Image /\ saved.image = ImageOf(saved.values) /\ saved.image \in Image
      /\ file.records = saved.image.records \/ Spoilt(file)
  BY DEF TypeOK, FileKnown
<1>2. CASE Spoilt(file)
  BY <1>1, <1>2, SpoiltIsRefused
<1>3. CASE file.records = saved.image.records /\ (file.wrong # {} \/ file.pieces # 6)
  BY <1>1, <1>3, SpoiltIsRefused
<1>4. CASE file.records = saved.image.records /\ file.wrong = {} /\ file.pieces = 6
  <2>1. saved.image.wrong = {} /\ saved.image.pieces = 6
    <3>1. PICK v : v = saved.values
      OBVIOUS
    <3>2. ImageOf(v).wrong = {} /\ ImageOf(v).pieces = 6
      BY ImageOfFacts DEF Holds
    <3> QED  BY <1>1, <3>1, <3>2
  <2>2. \A m \in Image : m = [wrong |-> m.wrong, records |-> m.records, pieces |-> m.pieces]
    BY DEF Image
  <2>3. file = saved.image
    BY <1>1, <1>4, <2>1, <2>2
  <2> QED  BY <2>3
<1> QED  BY <1>1, <1>2, <1>3, <1>4

\* The cases of a restore: nothing that could be read, what was saved, and
\* what became of it.
LEMMA RestoreKeeps ==
  ASSUME DeviceInv, Restore
  PROVE  DeviceInv'
<1>1. /\ pc = "restore" /\ options.restore /\ pc' = "ReportingInterval"
      /\ file' = file /\ runs' = runs /\ damages' = damages /\ options' = options
      /\ saved' = saved
  BY DEF Restore
<1>2. /\ parameters = NewStore /\ image = ImageOf(NewStore.values)
      /\ image \in Image /\ file \in Image \cup {None}
      /\ saved \in [image : Image, values : ParameterValues] \cup {None}
      /\ runs \in 0..MaxRuns /\ damages \in 0..MaxDamages /\ options \in Options
  BY <1>1 DEF DeviceInv, TypeOK, ImageFollows, RunKnown
<1>3. FileKnown'
  BY <1>1 DEF DeviceInv, FileKnown
<1>4. PICK status \in readImageFile :
         IF status = "Ok" THEN RestoreFrom
         ELSE restoreResult' = status /\ UNCHANGED <<parameters, image>>
  BY DEF Restore
<1>5. ASSUME parameters' = NewStore, image' = image,
             saved # None /\ file = saved.image =>
               restoreResult' \in {"OpenFailed", "ReadFailed"},
             restoreResult' \in FileStatus \cup HeaderStatus \cup RecordStatus
      PROVE  DeviceInv'
  <2>1. TypeOK'
    BY <1>1, <1>2, <1>5, NewStoreIsStore DEF TypeOK
  <2>2. ImageFollows' /\ RunKnown'
    BY <1>1, <1>2, <1>5 DEF ImageFollows, RunKnown
  <2> QED  BY <1>3, <2>1, <2>2 DEF DeviceInv
<1>6. CASE status # "Ok"
  <2>1. parameters' = NewStore /\ image' = image /\ restoreResult' = status
    BY <1>2, <1>4, <1>6
  <2>2. status \in FileStatus
    BY DEF readImageFile, FileStatus
  <2>3. status = "ImageNotFound" => file = None
    BY DEF readImageFile
  <2>4. saved # None => file # None
    BY DEF DeviceInv, FileKnown
  <2>5. saved # None /\ file = saved.image => status \in {"OpenFailed", "ReadFailed"}
    BY <1>6, <2>2, <2>3, <2>4 DEF FileStatus
  <2> QED  BY <1>5, <2>1, <2>2, <2>5
<1>7. CASE status = "Ok"
  <2>1. file # None /\ saved # None
    BY <1>7 DEF readImageFile, DeviceInv, FileKnown
  <2>2. /\ restoreResult' = restoreStatus(file) /\ parameters' = restore(file, NewStore)
        /\ image' = IF restoreStatus(file) = "Ok" THEN file ELSE image
    BY <1>2, <1>4, <1>7 DEF RestoreFrom
  <2>3. saved.values \in ParameterValues /\ saved.image = ImageOf(saved.values)
        /\ file \in Image
    BY <1>2, <2>1 DEF DeviceInv, FileKnown
  <2>4. CASE file = saved.image
    <3>1. restoreStatus(file) = "Ok"
      BY <2>3, <2>4, ImageOfIsSound DEF restoreStatus
    <3>2. image' = file /\ restoreResult' = "Ok"
      BY <2>2, <3>1
    <3>3. /\ parameters' \in Store /\ parameters'.values = saved.values
          /\ \A id \in ParameterID : parameters'.sources[id] = "PersistentStorage"
      <4>1. PICK v \in ParameterValues : v = saved.values
        BY <2>3
      <4>2. parameters' = restore(ImageOf(v), NewStore)
        BY <2>2, <2>3, <2>4, <4>1
      <4>3. /\ restore(ImageOf(v), NewStore) \in Store
            /\ restore(ImageOf(v), NewStore).values = v
            /\ \A id \in ParameterID :
                 restore(ImageOf(v), NewStore).sources[id] = "PersistentStorage"
        BY RestoreFacts
      <4> QED  BY <4>1, <4>2, <4>3
    <3>4. TypeOK'
      BY <1>1, <1>2, <2>3, <3>2, <3>3 DEF TypeOK, FileStatus
    <3>5. ImageFollows' /\ RunKnown'
      BY <1>1, <2>1, <2>3, <2>4, <3>2, <3>3 DEF ImageFollows, RunKnown
    <3> QED  BY <1>3, <3>4, <3>5 DEF DeviceInv
  <2>5. CASE file # saved.image
    <3>1. restoreStatus(file) # "Ok"
      BY <2>1, <2>5, OtherIsRefused DEF DeviceInv
    <3>2. parameters' = NewStore /\ image' = image
      BY <2>2, <3>1 DEF restore
    <3>3. restoreResult' \in HeaderStatus \cup RecordStatus
      BY <2>2, <2>3, WalkStatus DEF restoreStatus
    <3> QED  BY <1>5, <2>5, <3>2, <3>3
  <2> QED  BY <2>4, <2>5
<1> QED  BY <1>6, <1>7

LEMMA NoRestoreKeeps ==
  ASSUME DeviceInv, NoRestore
  PROVE  DeviceInv'
<1>1. /\ pc = "restore" /\ ~options.restore /\ pc' = "ReportingInterval"
      /\ parameters' = parameters /\ image' = image /\ restoreResult' = restoreResult
      /\ file' = file /\ runs' = runs /\ damages' = damages /\ options' = options
      /\ saved' = saved
  BY DEF NoRestore
<1>2. TypeOK'
  BY <1>1 DEF DeviceInv, TypeOK
<1>3. ImageFollows' /\ FileKnown' /\ RunKnown'
  BY <1>1 DEF DeviceInv, ImageFollows, FileKnown, RunKnown
<1> QED  BY <1>2, <1>3 DEF DeviceInv

LEMMA PlaceFacts ==
  ASSUME NEW id \in ParameterID
  PROVE  /\ NextPlace(id) \in {"TemperatureLimit", "OperatingMode", "save"}
         /\ id # "off"
BY DEF ParameterID, NextPlace

LEMMA AcceptedUpdate ==
  ASSUME NEW s \in Store, NEW id \in ParameterID, NEW t, t.parsed \in BOOLEAN, t.value \in Int,
         CheckText(s, id, t, "CommandLine") = "OK"
  PROVE  /\ Updated(s, id, t.value, "CommandLine") \in Store
         /\ Updated(s, id, t.value, "CommandLine").values = [s.values EXCEPT ![id] = t.value]
<1>1. PICK x \in Int : x = t.value
  OBVIOUS
<1>2. "CommandLine" \in ParameterSource
  BY DEF ParameterSource
<1>3. CheckUpdate(s, id, x, "CommandLine") = "OK"
  BY <1>1 DEF CheckText
<1>4. PICK u : u = Updated(s, id, x, "CommandLine")
  OBVIOUS
<1>5. u \in Store /\ u.values = [s.values EXCEPT ![id] = x]
      /\ u.sources = [s.sources EXCEPT ![id] = "CommandLine"]
  BY <1>2, <1>3, <1>4, UpdatedFacts
<1> QED  BY <1>1, <1>4, <1>5

\* An accepted update reaches store and image alike; a rejected one ends the run.
LEMMA ApplyKeeps ==
  ASSUME DeviceInv, NEW id \in ParameterID, Apply(id)
  PROVE  DeviceInv'
<1> DEFINE t == options.set[id]
<1>1. /\ pc = id /\ t # None
      /\ file' = file /\ runs' = runs /\ damages' = damages /\ options' = options
      /\ restoreResult' = restoreResult /\ saved' = saved
  BY DEF Apply
<1>2. /\ parameters \in Store /\ image \in Image /\ file \in Image \cup {None}
      /\ saved \in [image : Image, values : ParameterValues] \cup {None}
      /\ restoreResult \in FileStatus \cup HeaderStatus \cup RecordStatus \cup {None}
      /\ runs \in 0..MaxRuns /\ damages \in 0..MaxDamages /\ options \in Options
      /\ image = ImageOf(parameters.values)
  BY <1>1, PlaceFacts DEF DeviceInv, TypeOK, ImageFollows
<1>3. FileKnown'
  BY <1>1 DEF DeviceInv, FileKnown
<1>4. t.parsed \in BOOLEAN /\ t.value \in Int
  BY <1>1, <1>2, OptionParts, NoneIsNothing
<1>5. /\ NextPlace(id) \in {"TemperatureLimit", "OperatingMode", "save"} /\ id # "off"
  BY PlaceFacts
<1>6. CASE CheckText(parameters, id, t, "CommandLine") = "OK"
  <2> DEFINE u == Updated(parameters, id, t.value, "CommandLine")
  <2>1. /\ parameters' = u /\ image' = update(image, id, parameters')
        /\ pc' = IF findRecord(image, id) = {} THEN "off" ELSE NextPlace(id)
    BY <1>6 DEF Apply
  <2>2. u \in Store /\ u.values = [parameters.values EXCEPT ![id] = t.value]
    <3> HIDE DEF t
    <3> QED  BY <1>2, <1>4, <1>6, AcceptedUpdate
  <2> HIDE DEF u, t
  <2>3. parameters.values \in ParameterValues /\ image = create(parameters)
    BY <1>2, ValuesOfStore
  <2>4. update(image, id, u) = create(u) /\ findRecord(image, id) # {}
    BY <2>2, <2>3, UpdateFollowsStore
  <2>5. image' = create(u) /\ pc' = NextPlace(id)
    BY <2>1, <2>4
  <2>6. create(u) \in Image /\ create(u) = ImageOf(u.values)
    BY <2>2, ValuesOfStore
  <2>7. TypeOK'
    BY <1>1, <1>2, <1>5, <2>1, <2>2, <2>5, <2>6 DEF TypeOK
  <2>8. ImageFollows' /\ RunKnown'
    BY <1>5, <2>1, <2>5, <2>6 DEF ImageFollows, RunKnown
  <2> QED  BY <1>3, <2>7, <2>8 DEF DeviceInv
<1>7. CASE CheckText(parameters, id, t, "CommandLine") # "OK"
  <2>1. parameters' = parameters /\ image' = image /\ pc' = "off"
    BY <1>7 DEF Apply
  <2>2. TypeOK'
    BY <1>1, <1>2, <2>1 DEF TypeOK
  <2>3. ImageFollows' /\ RunKnown'
    BY <2>1 DEF ImageFollows, RunKnown
  <2> QED  BY <1>3, <2>2, <2>3 DEF DeviceInv
<1> QED  BY <1>6, <1>7

LEMMA NoUpdateKeeps ==
  ASSUME DeviceInv, NEW id \in ParameterID, NoUpdate(id)
  PROVE  DeviceInv'
<1>1. /\ pc = id /\ pc' = NextPlace(id) /\ parameters' = parameters /\ image' = image
      /\ file' = file /\ runs' = runs /\ damages' = damages /\ options' = options
      /\ restoreResult' = restoreResult /\ saved' = saved
  BY DEF NoUpdate
<1>2. NextPlace(id) \in {"TemperatureLimit", "OperatingMode", "save"} /\ id # "off"
  BY PlaceFacts
<1>3. TypeOK'
  BY <1>1, <1>2 DEF DeviceInv, TypeOK
<1>4. ImageFollows' /\ FileKnown' /\ RunKnown'
  BY <1>1, <1>2 DEF DeviceInv, ImageFollows, FileKnown, RunKnown
<1> QED  BY <1>3, <1>4 DEF DeviceInv

\* A save or its failure ends the run.
LEMMA SaveKeeps ==
  ASSUME DeviceInv, Save
  PROVE  DeviceInv'
<1>1. /\ pc = "save" /\ pc' = "off" /\ file' = image
      /\ saved' = [image |-> image, values |-> parameters.values]
      /\ parameters' = parameters /\ image' = image /\ runs' = runs /\ damages' = damages
      /\ options' = options /\ restoreResult' = restoreResult
  BY DEF Save
<1>2. /\ parameters \in Store /\ image \in Image /\ image = ImageOf(parameters.values)
  BY <1>1 DEF DeviceInv, TypeOK, ImageFollows
<1>3. parameters.values \in ParameterValues
  BY <1>2, ValuesOfStore
<1>4. saved' \in [image : Image, values : ParameterValues]
      /\ saved'.image = image /\ saved'.values = parameters.values
  BY <1>1, <1>2, <1>3
<1>5. saved' # None /\ file' # None
  BY <1>1, <1>2, <1>4, NoneIsNothing
<1>6. TypeOK'
  BY <1>1, <1>2, <1>4 DEF DeviceInv, TypeOK
<1>7. FileKnown'
  BY <1>1, <1>2, <1>4, <1>5 DEF FileKnown
<1>8. ImageFollows' /\ RunKnown'
  BY <1>1 DEF ImageFollows, RunKnown
<1> QED  BY <1>6, <1>7, <1>8 DEF DeviceInv

LEMMA EndKeeps ==
  ASSUME DeviceInv, End
  PROVE  DeviceInv'
<1>1. /\ pc' = "off" /\ parameters' = parameters /\ image' = image
      /\ file' = file /\ runs' = runs /\ damages' = damages /\ options' = options
      /\ restoreResult' = restoreResult /\ saved' = saved
  BY DEF End
<1>2. TypeOK'
  BY <1>1 DEF DeviceInv, TypeOK
<1>3. ImageFollows' /\ FileKnown' /\ RunKnown'
  BY <1>1 DEF DeviceInv, ImageFollows, FileKnown, RunKnown
<1> QED  BY <1>2, <1>3 DEF DeviceInv

\* What is damaged was saved by a run, or was damaged before.
LEMMA InjectErrorKeeps ==
  ASSUME DeviceInv, InjectError
  PROVE  DeviceInv'
<1>1. /\ pc = "off" /\ file # None /\ damages < MaxDamages /\ damages' = damages + 1
      /\ saved' = saved /\ runs' = runs /\ pc' = pc /\ options' = options
      /\ parameters' = parameters /\ image' = image /\ restoreResult' = restoreResult
  BY DEF InjectError
<1>2. PICK mode \in Corruption : file' \in corruptImage(file, mode)
  BY DEF InjectError
<1>3. /\ file \in Image /\ saved # None /\ saved.image = ImageOf(saved.values)
      /\ file.records = saved.image.records \/ Spoilt(file)
  BY <1>1 DEF DeviceInv, TypeOK, FileKnown
<1>4. file' \in Image /\ (file'.records = saved.image.records \/ Spoilt(file'))
  <2>1. CASE mode \in HeaderCorruption \cup {"Truncate"}
    <3>1. file' \in Image /\ file'.records = file.records
      BY <1>2, <1>3, <2>1, RecordsKept
    <3> QED  BY <1>3, <3>1 DEF Spoilt, Shape
  <2>2. CASE mode \in RecordCorruption
    <3>1. mode \notin HeaderCorruption /\ mode # "Truncate"
      BY <2>2 DEF RecordCorruption, HeaderCorruption
    <3>2. findRecord(file, "ReportingInterval") # {} /\ file' = damageRecord(file, mode)
      BY <1>2, <3>1 DEF corruptImage
    <3>3. walkRecords(file, FALSE) = "Ok"
      BY <3>2 DEF findRecord
    <3>4. Shape(file)
      <4>1. CASE file.records = saved.image.records
        <5>1. 1 \in Places /\ 2 \in Places
          BY DEF Places
        <5>2. PICK v : v = saved.values
          OBVIOUS
        <5>3. \A k \in Places : ImageOf(v).records[k].id = IDs[k]
          BY ImageOfFacts DEF Holds
        <5>4. file.records[1].id = IDs[1] /\ file.records[2].id = IDs[2]
          BY <1>3, <4>1, <5>1, <5>2, <5>3
        <5> QED  BY <5>4, ThreeRecords DEF Shape
      <4>2. CASE Spoilt(file)
        BY <4>2 DEF Spoilt
      <4> QED  BY <1>3, <4>1, <4>2
    <3> QED  BY <1>3, <2>2, <3>2, <3>3, <3>4, DamageSpoils
  <2> QED  BY <2>1, <2>2 DEF Corruption
<1>5. TypeOK'
  <2>1. damages' \in 0..MaxDamages
    BY <1>1, NoneIsNothing DEF DeviceInv, TypeOK
  <2> QED  BY <1>1, <1>4, <2>1 DEF DeviceInv, TypeOK
<1>6. FileKnown'
  <2>1. file' # None
    BY <1>4, NoneIsNothing
  <2>2. Spoilt(file') => Spoilt(file)'
    BY DEF Spoilt, Shape
  <2> QED  BY <1>1, <1>3, <1>4, <2>1, <2>2 DEF FileKnown
<1>7. ImageFollows' /\ RunKnown'
  BY <1>1 DEF ImageFollows, RunKnown
<1> QED  BY <1>5, <1>6, <1>7 DEF DeviceInv

LEMMA StutterKeeps ==
  ASSUME DeviceInv, UNCHANGED vars
  PROVE  DeviceInv'
<1>1. /\ pc' = pc /\ parameters' = parameters /\ image' = image
      /\ file' = file /\ runs' = runs /\ damages' = damages /\ options' = options
      /\ restoreResult' = restoreResult /\ saved' = saved
  BY DEF vars
<1>2. TypeOK'
  BY <1>1 DEF DeviceInv, TypeOK
<1>3. ImageFollows' /\ FileKnown' /\ RunKnown'
  BY <1>1 DEF DeviceInv, ImageFollows, FileKnown, RunKnown
<1> QED  BY <1>2, <1>3 DEF DeviceInv

LEMMA StepKeeps == DeviceInv /\ [Next]_vars => DeviceInv'
<1> SUFFICES ASSUME DeviceInv, [Next]_vars  PROVE DeviceInv'
  OBVIOUS
<1>1. CASE Start
  BY <1>1, StartKeeps
<1>2. CASE Restore \/ NoRestore
  BY <1>2, RestoreKeeps, NoRestoreKeeps
<1>3. CASE Save
  BY <1>3, SaveKeeps
<1>4. CASE End
  BY <1>4, EndKeeps
<1>5. CASE InjectError
  BY <1>5, InjectErrorKeeps
<1>6. ASSUME NEW id \in ParameterID, Apply(id)  PROVE DeviceInv'
  BY <1>6, ApplyKeeps
<1>7. ASSUME NEW id \in ParameterID, NoUpdate(id)  PROVE DeviceInv'
  BY <1>7, NoUpdateKeeps
<1>8. CASE UNCHANGED vars \/ Over
  BY <1>8, StutterKeeps DEF Over
<1> QED
  BY <1>1, <1>2, <1>3, <1>4, <1>5, <1>6, <1>7, <1>8 DEF Next

LEMMA DeviceInvAlways == Spec => []DeviceInv
BY InitDevice, StepKeeps, PTL DEF Spec

--------------------------------------------------------------------------------
(* What holds of every run *)

LEMMA DeviceInvMeans == DeviceInv => ImageTracksStore /\ SavedIsRestored /\ DamageChangesNothing
<1> SUFFICES ASSUME DeviceInv
             PROVE  ImageTracksStore /\ SavedIsRestored /\ DamageChangesNothing
  OBVIOUS
<1>1. parameters \in Store /\ parameters.values \in ParameterValues
      /\ saved \in [image : Image, values : ParameterValues] \cup {None} /\ TypeOK
  BY ValuesOfStore DEF DeviceInv, TypeOK
<1>2. \A v \in ParameterValues : restoreStatus(ImageOf(v)) = "Ok" /\ ValuesOf(ImageOf(v)) = v
  BY ImageOfIsSound, ValuesOfImage DEF restoreStatus
<1>3. ImageTracksStore
  BY <1>1, <1>2 DEF DeviceInv, ImageFollows, ImageTracksStore
<1>4. SavedIsRestored
  <2>1. ASSUME saved # None
        PROVE  restoreStatus(saved.image) = "Ok" /\ ValuesOf(saved.image) = saved.values
    BY <1>1, <1>2, <2>1 DEF DeviceInv, FileKnown
  <2>2. ASSUME pc = "ReportingInterval", options.restore, saved # None, file = saved.image
        PROVE  \/ restoreResult \in {"OpenFailed", "ReadFailed"} /\ parameters = NewStore
               \/ /\ restoreResult = "Ok" /\ parameters.values = saved.values
                  /\ \A id \in ParameterID : parameters.sources[id] = "PersistentStorage"
    BY <2>2 DEF DeviceInv, RunKnown
  <2> QED  BY <2>1, <2>2 DEF SavedIsRestored
<1>5. DamageChangesNothing
  BY DEF DeviceInv, RunKnown, DamageChangesNothing
<1> QED  BY <1>3, <1>4, <1>5

\* While a run of ch17_weather_device goes on, the image in memory can be
\* restored and has the values of the parameter store, whatever is asked for on
\* the command line and after any number of runs, saves and damaged files.
THEOREM ImageIsTheStores == Spec => []ImageTracksStore
BY DeviceInvAlways, DeviceInvMeans, PTL

\* What a run saved is restored by a later run that asks for it and can read the
\* file, with the provenance of persistent storage, until it is saved again, and
\* also if the file was damaged and the damage undone; a run that cannot read it
\* has the compiled defaults.
THEOREM SavedComesBack == Spec => []SavedIsRestored
BY DeviceInvAlways, DeviceInvMeans, PTL

\* Whatever the inspection tool does to the file, in any order and any number of
\* times: unless the file is again exactly what was saved, restore changes no
\* parameter, and the staged store never becomes the active one.
THEOREM DamageIsHarmless == Spec => []DamageChangesNothing
BY DeviceInvAlways, DeviceInvMeans, PTL
==============================================================================
