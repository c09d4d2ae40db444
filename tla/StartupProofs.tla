---------------------------- MODULE StartupProofs ----------------------------
(***************************************************************************)
(* Theorems about Startup and PacketPath: the sizes, the threshold and the *)
(* farm that main builds are the ones the options ask for, and the index a *)
(* packet gets is one of the tables', for every width of a word, every set *)
(* of command lines and every size of a key.                               *)
(***************************************************************************)
EXTENDS PacketPath, TLAPS

(* A size that nextPrime searched for is a prime above its argument, or 0. *)
LEMMA NextPrimeResult ==
  ASSUME NEW num \in Word, DivisorFound(num), NEW n \in nextPrime(num), n # 0
  PROVE  n \in Word /\ n > num /\ IsPrime(n)
<1>1. n \in (num + 1)..(WordMod - 1) /\ ~ DivisorFound(n)
  BY SizingAssumption DEF nextPrime, Candidates
<1>2. num >= 6
  <2>1. PICK i \in 2..((num \div 2) - 1) : num % i = 0
    BY DEF DivisorFound
  <2> QED BY <2>1 DEF Word
<1>3. n \in Nat /\ n >= 7 /\ n \in Word
  BY <1>1, <1>2, SizingAssumption DEF Word
<1>4. ASSUME NEW d \in 2..(n - 1) PROVE n % d # 0
  <2> SUFFICES ASSUME n % d = 0 PROVE FALSE
    OBVIOUS
  <2>1. PICK e \in Nat : n = d * e
    BY <1>3, <1>4
  <2>2. d > (n \div 2) - 1
    BY <1>1, <1>3, <1>4 DEF DivisorFound
  <2>3. e >= 2
    <3>1. e # 0
      BY <1>3, <2>1
    <3>2. e # 1
      BY <1>3, <2>1
    <3> QED BY <3>1, <3>2
  <2>4. e < 3
    <3>1. SUFFICES ASSUME e >= 3 PROVE FALSE
      BY <2>1
    <3>2. d * e >= d * 3
      BY <3>1, <2>1
    <3>3. d * 3 > n
      BY <2>2, <1>3
    <3> QED BY <2>1, <3>2, <3>3
  <2>5. n = 2 * d
    BY <2>1, <2>3, <2>4
  <2>6. n % 2 = 0 /\ 2 \in 2..((n \div 2) - 1)
    BY <1>3, <2>5
  <2> QED BY <2>6, <1>1 DEF DivisorFound
<1>5. IsPrime(n)
  <2>1. n > 1
    BY <1>3
  <2>2. \A d \in 2..(n - 1) : n % d # 0
    BY <1>4
  <2> QED BY <2>1, <2>2, Zenon DEF IsPrime
<1>6. n > num
  BY <1>1, <1>3, SizingAssumption DEF Word
<1> QED BY <1>3, <1>5, <1>6

(* Whatever it returns is a word. *)
LEMMA NextPrimeWord ==
  ASSUME NEW num \in Word, NEW n \in nextPrime(num)
  PROVE  n \in Word
<1>1. CASE n = 0
  BY <1>1, SizingAssumption DEF Word
<1>2. CASE n # 0
  BY <1>2, NextPrimeResult DEF nextPrime
<1> QED BY <1>1, <1>2

(* A float converted to unsigned int is a word, at most 1 off the ratio    *)
(* where that is defined. *)
LEMMA Conversion ==
  ASSUME NEW num \in Nat, NEW den \in Nat, NEW k \in ToUnsigned(num, den)
  PROVE  /\ k \in Word
         /\ Fits(num, den) => k * den <= num /\ num <= (k + 1) * den
<1>1. CASE ~ Fits(num, den)
  BY <1>1 DEF ToUnsigned
<1>2. CASE Fits(num, den)
  <2>1. den \in Nat \ {0} /\ num < WordMod * den
    BY <1>2, SizingAssumption DEF Fits
  <2> DEFINE q == num \div den
             r == num % den
  <2>2. num = den * q + r /\ q \in Nat /\ r \in 0..(den - 1)
    BY <2>1
  <2>3. q < WordMod
    <3>1. SUFFICES ASSUME q >= WordMod PROVE FALSE
      BY <2>2, SizingAssumption
    <3> HIDE DEF q, r
    <3>2. den * q >= den * WordMod
      BY <3>1, <2>1, <2>2, SizingAssumption
    <3> QED BY <3>2, <2>1, <2>2, SizingAssumption
  <2>4. k \in {q} \cup (IF num > 0 /\ r = 0 THEN {q - 1} ELSE {})
    BY <1>2 DEF ToUnsigned, Truncated
  <2> HIDE DEF q, r
  <2>5. CASE k = q
    BY <2>5, <2>1, <2>2, <2>3, SizingAssumption DEF Word
  <2>6. CASE k = q - 1 /\ r = 0 /\ num > 0
    <3>1. q # 0
      BY <2>2, <2>6, <2>1
    <3>2. k \in Word /\ k + 1 = q
      BY <3>1, <2>6, <2>2, <2>3, SizingAssumption DEF Word
    <3>3. k * den = num - den
      BY <2>6, <2>2, <2>1
    <3> QED BY <3>2, <3>3, <2>2, <2>6, <2>1
  <2> QED BY <2>4, <2>5, <2>6
<1> QED BY <1>1, <1>2

(* The threshold: a word, and the share asked for where that fits one. *)
LEMMA ThresholdResult ==
  ASSUME NEW l \in Nat, NEW y \in Ratio, NEW q \in Nat, NEW t \in firstThreshold(l, y, q)
  PROVE  /\ t \in Word
         /\ l * y.num * q < WordMod * y.den =>
              t * y.den <= l * y.num * q /\ l * y.num * q <= (t + 1) * y.den
<1> DEFINE asked == l * y.num * q
<1>1. y.den \in Nat \ {0} /\ asked \in Nat
  BY DEF Ratio
<1> HIDE DEF asked
<1>2. PICK n \in Truncated(asked, y.den) : t = n % WordMod
  BY DEF firstThreshold, asked
<1>3. n \in Nat
  <2>1. asked > 0 /\ asked % y.den = 0 => asked \div y.den > 0
    BY <1>1
  <2> QED BY <2>1, <1>1, <1>2 DEF Truncated
<1>4. t \in Word
  BY <1>2, <1>3, SizingAssumption DEF Word
<1>5. ASSUME asked < WordMod * y.den
      PROVE  t * y.den <= asked /\ asked <= (t + 1) * y.den
  <2>1. n \in ToUnsigned(asked, y.den) /\ Fits(asked, y.den)
    BY <1>1, <1>2, <1>5 DEF ToUnsigned, Fits
  <2>2. n \in Word /\ n * y.den <= asked /\ asked <= (n + 1) * y.den
    BY <2>1, <1>1, Conversion
  <2>3. t = n
    BY <2>2, <1>2, SizingAssumption DEF Word
  <2> QED BY <2>2, <2>3
<1> QED BY <1>4, <1>5 DEF asked

-----------------------------------------------------------------------------
(* int is symmetric but for its least number. *)
LEMMA ToIntType ==
  ASSUME NEW x \in Int
  PROVE  ToInt(x) \in Int32
<1>1. IntMax \in Nat /\ WordMod = 2 * IntMax + 2 /\ WordMod \div 2 = IntMax + 1
  BY SizingAssumption, HashAssumption DEF IntMax
<1>2. CASE x \in Int32
  BY <1>2 DEF ToInt
<1>3. CASE x \notin Int32
  <2> DEFINE r == (x + WordMod \div 2) % WordMod
  <2>1. r \in 0..(WordMod - 1)
    BY <1>1, SizingAssumption
  <2>2. ToInt(x) = r - WordMod \div 2
    BY <1>3 DEF ToInt
  <2> HIDE DEF r
  <2> QED BY <2>1, <2>2, <1>1 DEF Int32
<1> QED BY <1>2, <1>3

(* The modulus of a table is an int other than 0. *)
LEMMA TableModulus ==
  ASSUME NEW t \in Word, t # 0
  PROVE  ToInt(t) \in Int32 \ {0} /\ (t <= IntMax => ToInt(t) = t)
<1>1. IntMax \in Nat /\ WordMod = 2 * IntMax + 2 /\ WordMod \div 2 = IntMax + 1
  BY SizingAssumption, HashAssumption DEF IntMax
<1>2. t \in 1..(WordMod - 1)
  BY SizingAssumption DEF Word
<1>3. CASE t <= IntMax
  BY <1>1, <1>2, <1>3 DEF ToInt, Int32
<1>4. CASE t > IntMax
  <2>1. t \notin Int32
    BY <1>1, <1>2, <1>4 DEF Int32
  <2>2. (t + (IntMax + 1)) % WordMod = t + (IntMax + 1) - WordMod
    BY <1>1, <1>2, <1>4
  <2>3. ToInt(t) = t - WordMod
    BY <2>1, <2>2, <1>1, <1>2 DEF ToInt
  <2> QED BY <2>3, <1>1, <1>2, <1>4 DEF Int32
<1> QED BY <1>1, <1>2, <1>3, <1>4

(* The coefficients of a table are of type int. *)
LEMMA CoefficientsType ==
  ASSUME NEW t \in Word, t # 0
  PROVE  Coefficients(t) \subseteq Int32
<1> DEFINE range == ToInt(t)
<1>1. range \in Int32
  BY TableModulus
<1>2. IntMax \in Nat
  BY SizingAssumption, HashAssumption DEF IntMax
<1>3. Coefficients(t) = IF range > 0 THEN 0..(range - 1) ELSE (range + 1)..0
  BY DEF Coefficients
<1> HIDE DEF range
<1> QED BY <1>1, <1>2, <1>3 DEF Int32

(* The remainder of an int is an int. *)
LEMMA RemainderType ==
  ASSUME NEW x \in Int32, NEW m \in Int32 \ {0}
  PROVE  Remainder(x, m) \in Int32
<1>1. IntMax \in Nat
  BY SizingAssumption, HashAssumption DEF IntMax
<1>2. x \in Int /\ m \in Int /\ m # 0 /\ m >= - IntMax - 1 /\ m <= IntMax
  BY <1>1 DEF Int32
<1> DEFINE d == IF m < 0 THEN - m ELSE m
<1>3. d \in Nat \ {0} /\ d <= IntMax + 1
  BY <1>1, <1>2
<1>4. Remainder(x, m) = IF x >= 0 THEN x % d ELSE - ((- x) % d)
  BY DEF Remainder
<1> HIDE DEF d
<1>5. CASE x >= 0
  BY <1>1, <1>2, <1>3, <1>4, <1>5 DEF Int32
<1>6. CASE x < 0
  BY <1>1, <1>2, <1>3, <1>4, <1>6 DEF Int32
<1> QED BY <1>2, <1>5, <1>6

(* One round of the hash, on a table it cannot overflow on. *)
LEMMA HashStepBound ==
  ASSUME NEW t \in Word, t # 0, NoOverflow(t),
         NEW hash1 \in 0..(t - 1), NEW k \in 0..ByteMax, NEW c \in Coefficients(t)
  PROVE  HashStep(hash1, k, c, t) \in 0..(t - 1)
<1>1. IntMax \in Nat /\ ByteMax \in Nat \ {0} /\ t \in Nat \ {0}
  BY SizingAssumption, HashAssumption DEF IntMax, Word
<1>2. ByteMax * (t - 1) + (t - 1) <= IntMax
  BY <1>1 DEF NoOverflow
<1>3. ByteMax * (t - 1) >= t - 1
  BY <1>1
<1>4. t <= IntMax
  <2>1. t > 1 => ByteMax * (t - 1) >= 1
    BY <1>1
  <2>2. IntMax >= 1
    BY SizingAssumption, HashAssumption DEF IntMax
  <2> QED BY <2>1, <2>2, <1>1, <1>2
<1>5. ToInt(t) = t
  BY <1>4, TableModulus
<1>6. c \in 0..(t - 1)
  BY <1>1, <1>5 DEF Coefficients
<1> DEFINE p == k * c
<1>7. p \in Nat /\ p <= ByteMax * (t - 1)
  <2>1. k * c <= k * (t - 1)
    BY <1>1, <1>6
  <2>2. k * (t - 1) <= ByteMax * (t - 1)
    BY <1>1
  <2>3. k * c \in Nat /\ k * (t - 1) \in Nat /\ ByteMax * (t - 1) \in Nat
    BY <1>1, <1>6
  <2> QED BY <2>1, <2>2, <2>3
<1> HIDE DEF p
<1> DEFINE b == ByteMax * (t - 1)
<1>8. b \in Nat
  BY <1>1
<1>9. p <= IntMax /\ hash1 + p <= IntMax
  <2> HIDE DEF b
  <2> QED BY <1>1, <1>2, <1>7, <1>8 DEF b
<1>10. ToInt(p) = p /\ ToInt(hash1 + p) = hash1 + p
  BY <1>1, <1>7, <1>9 DEF ToInt, Int32
<1>11. HashStep(hash1, k, c, t) = (hash1 + p) % t
  BY <1>1, <1>5, <1>7, <1>10 DEF HashStep, Remainder, p
<1> QED BY <1>1, <1>7, <1>11

-----------------------------------------------------------------------------
(* One round of the hash yields an int. *)
LEMMA HashStepType ==
  ASSUME NEW h \in Int32, NEW k \in 0..ByteMax, NEW c \in Int32, NEW t \in Word, t # 0
  PROVE  HashStep(h, k, c, t) \in Int32
<1>1. h \in Int /\ k \in Int /\ c \in Int /\ Int32 \subseteq Int
  BY SizingAssumption, HashAssumption DEF Int32, IntMax
<1>2. k * c \in Int
  BY <1>1
<1> DEFINE product == ToInt(k * c)
<1>3. product \in Int32
  BY <1>2, ToIntType
<1>4. HashStep(h, k, c, t) = Remainder(ToInt(h + product), ToInt(t))
  BY DEF HashStep
<1> HIDE DEF product
<1>5. h + product \in Int
  BY <1>1, <1>3
<1>6. ToInt(h + product) \in Int32
  BY <1>5, ToIntType
<1> QED BY <1>4, <1>6, TableModulus, RemainderType

(* The sizes of the workers' tables are words. *)
LEMMA TableSizesType ==
  ASSUME StartTypeOK, NEW t \in tableSizes
  PROVE  t.size \in Word /\ t.bad \in BOOLEAN
<1>1. opt \in Options /\ opt.s \in Ratio /\ hashTablesSize \in Word /\ nWorkers \in Nat \ {0}
  BY StartupAssumption DEF StartTypeOK, Options
<1>2. CASE ~ opt.balanced
  BY <1>1, <1>2 DEF tableSizes
<1>3. CASE opt.balanced
  <2>1. PICK part \in hashPart(hashTablesSize, nWorkers) : t \in workerSize(part)
    BY <1>3 DEF tableSizes
  <2>2. part \in Word
    <3>1. hashTablesSize + nWorkers \in Nat /\ nWorkers \in Nat
      BY <1>1, SizingAssumption DEF Word
    <3> QED BY <3>1, Conversion DEF hashPart
  <2> DEFINE x == workerDim(part, opt.s)
  <2>3. x.num \in Nat /\ x.den \in Nat
    <3>1. part \in Nat /\ opt.s.num \in Nat /\ opt.s.den \in Nat
      BY <1>1, <2>2, SizingAssumption DEF Word, Ratio
    <3> QED BY <3>1 DEF workerDim
  <2> DEFINE defined == Fits(hashTablesSize + nWorkers, nWorkers) /\ Fits(x.num, x.den)
             S(dim) == [size : nextPrime(dim), bad : {~ (defined /\ DivisorFound(dim))}]
  <2>w. workerSize(part) = UNION {S(dim) : dim \in ToUnsigned(x.num, x.den)}
    BY DEF workerSize
  <2>s. PICK dim \in ToUnsigned(x.num, x.den) : t \in S(dim)
    <3> HIDE DEF S, x
    <3> QED BY <2>1, <2>w
  <2>4. t.size \in nextPrime(dim) /\ t.bad \in BOOLEAN
    <3>1. (~ (defined /\ DivisorFound(dim))) \in BOOLEAN
      OBVIOUS
    <3> HIDE DEF defined, x
    <3> QED BY <2>s, <3>1
  <2>5. dim \in Word
    <3> HIDE DEF x
    <3> QED BY <2>3, <2>4, Conversion
  <2> QED BY <2>4, <2>5, NextPrimeWord
<1> QED BY <1>1, <1>2, <1>3 DEF Options

(* Main's arithmetic starts from positive numbers of workers. *)
LEMMA WorkersPositive ==
  ASSUME NEW w \in Nat
  PROVE  nWorkersFor(w) \in Nat \ {0}
BY DEF nWorkersFor

(* The first size is a word. *)
LEMMA FirstSizeType ==
  ASSUME NEW y \in Ratio, NEW s \in Ratio, NEW dim \in ToUnsigned(dimH(y, s).num, dimH(y, s).den)
  PROVE  dim \in Word /\ dimH(y, s).num \in Nat /\ dimH(y, s).den \in Nat
<1>1. y.num \in Nat /\ y.den \in Nat /\ s.num \in Nat /\ s.den \in Nat
  BY DEF Ratio
<1>2. dimH(y, s).num \in Nat /\ dimH(y, s).den \in Nat
  BY <1>1 DEF dimH
<1> QED BY <1>2, Conversion

(* Every step of the program up to the running farm keeps the types. *)
LEMMA StartTypeStep ==
  ASSUME StartTypeOK, StartNext
  PROVE  StartTypeOK'
<1> USE DEF StartTypeOK, GoesTo, Exits, Aborts
<1>o. opt \in Options /\ opt.s \in Ratio /\ opt.y \in Ratio /\ opt.w \in Nat /\ opt.l \in Nat
      /\ opt.q \in Nat
  BY StartupAssumption DEF Options
<1>w. WordMod \in Nat /\ 0 \in Word
  BY SizingAssumption DEF Word
<1>1. CASE BlockSignals
  BY <1>1 DEF BlockSignals, sizes, emitter, farm, analyzer
<1>2. CASE ParseArgs
  <2>1. built = built' /\ (nWorkers' = nWorkers \/ nWorkers' = nWorkersFor(opt.w))
    BY <1>2 DEF ParseArgs, sizes, emitter, farm, analyzer
  <2> QED BY <1>2, <1>o, WorkersPositive DEF ParseArgs, sizes, emitter, farm, analyzer
<1>3. CASE SizeTables
  <2>1. PICK dim \in ToUnsigned(dimH(opt.y, opt.s).num, dimH(opt.y, opt.s).den) :
          hashTablesSize' \in nextPrime(dim) /\ undefined' \in BOOLEAN
    BY <1>3 DEF SizeTables
  <2>2. hashTablesSize' \in Word
    BY <2>1, <1>o, FirstSizeType, NextPrimeWord
  <2> QED BY <1>3, <2>1, <2>2 DEF SizeTables, emitter, farm, analyzer
<1>4. CASE AssertSize
  BY <1>4 DEF AssertSize, sizes, emitter, farm, analyzer
<1>5. CASE ComputeThreshold
  <2>1. wThreshold' \in Word
    BY <1>5, <1>o, ThresholdResult DEF ComputeThreshold
  <2> QED BY <1>5, <2>1 DEF ComputeThreshold, emitter, farm, analyzer
<1>6. CASE OpenDevice
  BY <1>6 DEF OpenDevice, sizes, farm, analyzer
<1>7. CASE InstallIPFilter
  BY <1>7 DEF InstallIPFilter, sizes, farm, analyzer
<1>8. CASE InstallUserFilter
  BY <1>8 DEF InstallUserFilter, sizes, farm, analyzer
<1>9. CASE FindDatalink
  BY <1>9 DEF FindDatalink, sizes, emitter, farm, analyzer
<1>10. CASE BuildWorkers
  <2>1. PICK t \in tableSizes :
          /\ workerTable' = t.size
          /\ undefined' = (undefined \/ t.bad)
          /\ IF opt.z % ShortMod = 0 \/ t.size = 0
             THEN Aborts /\ UNCHANGED <<built, coefficient>>
             ELSE /\ GoesTo("analyzer")
                  /\ built' = nWorkers
                  /\ coefficient' \in [KeyByte -> Coefficients(t.size)]
    BY <1>10 DEF BuildWorkers
  <2>2. t.size \in Word /\ t.bad \in BOOLEAN
    BY TableSizesType
  <2>3. coefficient' \in [KeyByte -> Int32]
    BY <2>1, <2>2, CoefficientsType
  <2>4. built' \in Nat /\ nWorkers' = nWorkers
    BY <1>10, <2>1 DEF BuildWorkers
  <2>5. undefined' \in BOOLEAN
    BY <2>1, <2>2
  <2> QED BY <1>10, <2>1, <2>2, <2>3, <2>4, <2>5 DEF BuildWorkers, emitter, analyzer
<1>11. CASE BuildAnalyzer
  <2>1. (workerTable * built) % WordMod \in Word
    BY SizingAssumption DEF Word
  <2> QED BY <1>11, <2>1 DEF BuildAnalyzer, sizes, emitter, farm
<1>12. CASE OpenReport
  BY <1>12 DEF OpenReport, sizes, emitter, farm, analyzer
<1> QED BY <1>1, <1>2, <1>3, <1>4, <1>5, <1>6, <1>7, <1>8, <1>9, <1>10, <1>11, <1>12
        DEF StartNext

-----------------------------------------------------------------------------
(* The strengthening: what each place of main has established.             *)
Computed == at \notin {"signals", "args", "size"}
Asserted == Computed /\ at # "assert"
Bound == Asserted /\ at # "threshold"
Opened == Bound /\ at # "device"
Filtered == Opened /\ at # "ipfilter"
Farmed == at \in {"analyzer", "go", "run"}

(* The size is the next prime, and with a positive share and oversampling  *)
(* factor it passes the assertion; past the assertion it has.              *)
SizeInv ==
  /\ Computed /\ ~ undefined /\ hashTablesSize # 0 =>
       /\ IsPrime(hashTablesSize)
       /\ opt.s.num > 0 /\ opt.y.num > 0 => LargeEnough(hashTablesSize, opt.y)
  /\ Asserted => LargeEnough(hashTablesSize, opt.y)
  /\ process = "aborted" /\ at = "assert" => ~ LargeEnough(hashTablesSize, opt.y)

(* The threshold is the share asked for.                                   *)
AsAsked(t) ==
  LET asked == opt.l * opt.y.num * opt.q
  IN  asked < WordMod * opt.y.den =>
        t * opt.y.den <= asked /\ asked <= (t + 1) * opt.y.den

ThresholdInv ==
  /\ Bound => AsAsked(wThreshold)
  /\ at \in {"go", "run"} => t_threshold = wThreshold

(* The emitter knows the workers there will be and has its first filter.   *)
EmitterInv ==
  /\ Opened => numWorkers = nWorkers
  /\ Filtered => bpf # "none" /\ (opt.b = "none" => bpf = "ip")

(* All workers are built or none, on tables that hold their part.          *)
FarmInv ==
  /\ ~ Farmed => built = 0
  /\ Farmed =>
       /\ built = nWorkers
       /\ workerTable # 0
       /\ coefficient \in [KeyByte -> Coefficients(workerTable)]
       /\ ~ undefined => IsPrime(workerTable)
       /\ ~ undefined =>
            hashTablesSize <= IF opt.balanced THEN workerTable * nWorkers ELSE workerTable
  /\ at \in {"go", "run"} /\ ~ undefined /\ workerTable * built < WordMod =>
       flowMemSize >= hashTablesSize

(* The report is opened last.                                              *)
ReportInv == report = "new" => process = "up" /\ at = "run"

(* The packet in work.                                                     *)
PacketInv ==
  idx > 0 =>
    /\ at = "run"
    /\ victim < numWorkers
    /\ Accepted(frame) /\ fid \in FlowIds(frame)
    /\ NoOverflow(workerTable) => hash \in 0..(workerTable - 1)

StartInv == StartTypeOK /\ SizeInv /\ ThresholdInv /\ EmitterInv /\ FarmInv /\ ReportInv

IInv == PathTypeOK /\ StartInv /\ PacketInv

(* What a step of main before the place of a fact leaves alone. *)
LEMMA SizeInvStep ==
  ASSUME StartTypeOK, SizeInv, StartNext
  PROVE  SizeInv'
<1> USE DEF GoesTo, Exits, Aborts, SizeInv, Computed, Asserted
<1>o. opt \in Options /\ opt.s \in Ratio /\ opt.y \in Ratio /\ WordMod \in Nat
  BY StartupAssumption, SizingAssumption DEF Options, StartTypeOK
<1>1. CASE BlockSignals
  BY <1>1 DEF BlockSignals, sizes
<1>2. CASE ParseArgs
  BY <1>2 DEF ParseArgs
<1>3. CASE SizeTables
  <2> DEFINE x == dimH(opt.y, opt.s)
  <2>1. PICK dim \in ToUnsigned(x.num, x.den) :
          /\ hashTablesSize' \in nextPrime(dim)
          /\ undefined' = (~ Fits(x.num, x.den) \/ ~ DivisorFound(dim))
    BY <1>3 DEF SizeTables
  <2>2. at' = "assert" /\ process' = "up" /\ opt' = opt
    BY <1>3 DEF SizeTables
  <2>3. dim \in Word /\ x.num \in Nat /\ x.den \in Nat
    BY <2>1, <1>o, FirstSizeType
  <2>4. SUFFICES ASSUME ~ undefined', hashTablesSize' # 0
                 PROVE  /\ IsPrime(hashTablesSize')
                        /\ opt.s.num > 0 /\ opt.y.num > 0 => LargeEnough(hashTablesSize', opt.y)
    BY <2>2
  <2>5. hashTablesSize' \in Word /\ hashTablesSize' > dim /\ IsPrime(hashTablesSize')
    BY <2>1, <2>3, <2>4, NextPrimeResult
  <2>6. x.num <= (dim + 1) * x.den
    <3> HIDE DEF x
    <3> QED BY <2>1, <2>3, <2>4, Conversion
  <2>7. ASSUME opt.s.num > 0, opt.y.num > 0
        PROVE  LargeEnough(hashTablesSize', opt.y)
    <3> DEFINE size == hashTablesSize'
               yn == opt.y.num
               yd == opt.y.den
               sn == opt.s.num
               sd == opt.s.den
    <3>1. yn \in Nat \ {0} /\ yd \in Nat \ {0} /\ sn \in Nat \ {0} /\ sd \in Nat \ {0}
          /\ size \in Nat /\ dim \in Nat /\ dim + 1 <= size
      BY <1>o, <2>3, <2>5, <2>7 DEF Ratio, Word
    <3>2. yd * (sd + sn) <= (dim + 1) * (yn * sd)
      BY <2>6 DEF dimH
    <3> HIDE DEF size, yn, yd, sn, sd
    <3>3. (dim + 1) * (yn * sd) <= size * (yn * sd)
      BY <3>1
    <3>4. yd * sd < yd * (sd + sn)
      BY <3>1
    <3>5. yd * sd < (size * yn) * sd
      BY <3>1, <3>2, <3>3, <3>4
    <3>6. yd < size * yn
      BY <3>1, <3>5
    <3> QED BY <3>6 DEF LargeEnough, size, yn, yd
  <2> QED BY <2>5, <2>7
<1>4. CASE AssertSize
  BY <1>4 DEF AssertSize, sizes
<1>5. CASE ComputeThreshold
  BY <1>5 DEF ComputeThreshold
<1>6. CASE OpenDevice
  BY <1>6 DEF OpenDevice, sizes
<1>7. CASE InstallIPFilter
  BY <1>7 DEF InstallIPFilter, sizes
<1>8. CASE InstallUserFilter
  BY <1>8 DEF InstallUserFilter, sizes
<1>9. CASE FindDatalink
  BY <1>9 DEF FindDatalink, sizes
<1>10. CASE BuildWorkers
  <2>1. undefined => undefined'
    BY <1>10 DEF BuildWorkers, StartTypeOK
  <2> QED BY <1>10, <2>1 DEF BuildWorkers, StartTypeOK
<1>11. CASE BuildAnalyzer
  BY <1>11 DEF BuildAnalyzer, sizes
<1>12. CASE OpenReport
  BY <1>12 DEF OpenReport, sizes
<1> QED BY <1>1, <1>2, <1>3, <1>4, <1>5, <1>6, <1>7, <1>8, <1>9, <1>10, <1>11, <1>12
        DEF StartNext

(* The threshold. *)
LEMMA ThresholdInvStep ==
  ASSUME StartTypeOK, ThresholdInv, StartNext
  PROVE  ThresholdInv'
<1> USE DEF GoesTo, Exits, Aborts, ThresholdInv, Bound, Asserted, Computed
<1>1. CASE ComputeThreshold
  <2>1. opt \in Options
    BY StartupAssumption DEF StartTypeOK
  <2>2. AsAsked(wThreshold') /\ opt' = opt
    BY <1>1, <2>1, ThresholdResult DEF ComputeThreshold, AsAsked, Options
  <2> QED BY <1>1, <2>2 DEF ComputeThreshold, AsAsked, analyzer
<1>2. CASE BlockSignals \/ ParseArgs \/ SizeTables \/ AssertSize
  BY <1>2 DEF BlockSignals, ParseArgs, SizeTables, AssertSize, AsAsked, analyzer, sizes
<1>3. CASE OpenDevice \/ InstallIPFilter \/ InstallUserFilter \/ FindDatalink
  BY <1>3 DEF OpenDevice, InstallIPFilter, InstallUserFilter, FindDatalink, AsAsked,
              analyzer, sizes
<1>4. CASE BuildWorkers
  BY <1>4 DEF BuildWorkers, AsAsked, analyzer
<1>5. CASE BuildAnalyzer \/ OpenReport
  BY <1>5 DEF BuildAnalyzer, OpenReport, AsAsked, analyzer, sizes
<1> QED BY <1>1, <1>2, <1>3, <1>4, <1>5 DEF StartNext

(* The device and its filter. *)
LEMMA EmitterInvStep ==
  ASSUME StartTypeOK, EmitterInv, StartNext
  PROVE  EmitterInv'
<1> USE DEF GoesTo, Exits, Aborts, EmitterInv, Opened, Filtered, Bound, Asserted, Computed,
            emitter, sizes
<1>2. CASE BlockSignals \/ ParseArgs \/ SizeTables \/ AssertSize \/ ComputeThreshold
  BY <1>2 DEF BlockSignals, ParseArgs, SizeTables, AssertSize, ComputeThreshold
<1>3. CASE OpenDevice \/ InstallIPFilter \/ InstallUserFilter \/ FindDatalink
  BY <1>3 DEF OpenDevice, InstallIPFilter, InstallUserFilter, FindDatalink
<1>4. CASE BuildWorkers
  BY <1>4 DEF BuildWorkers
<1>5. CASE BuildAnalyzer \/ OpenReport
  BY <1>5 DEF BuildAnalyzer, OpenReport
<1> QED BY <1>2, <1>3, <1>4, <1>5 DEF StartNext

(* The report. *)
LEMMA ReportInvStep ==
  ASSUME StartTypeOK, ReportInv, StartNext
  PROVE  ReportInv'
<1> USE DEF GoesTo, Exits, Aborts, ReportInv
<1>1. CASE BlockSignals \/ ParseArgs \/ SizeTables \/ AssertSize \/ ComputeThreshold
  BY <1>1 DEF BlockSignals, ParseArgs, SizeTables, AssertSize, ComputeThreshold
<1>2. CASE OpenDevice \/ InstallIPFilter \/ InstallUserFilter \/ FindDatalink
  BY <1>2 DEF OpenDevice, InstallIPFilter, InstallUserFilter, FindDatalink
<1>3. CASE BuildWorkers
  BY <1>3 DEF BuildWorkers
<1>4. CASE BuildAnalyzer \/ OpenReport
  BY <1>4 DEF BuildAnalyzer, OpenReport
<1> QED BY <1>1, <1>2, <1>3, <1>4 DEF StartNext

(* A worker's table holds its part of the flows, if its size is defined. *)
LEMMA TableSizesHold ==
  ASSUME StartTypeOK, NEW t \in tableSizes, ~ t.bad, t.size # 0, hashTablesSize # 0,
         IsPrime(hashTablesSize)
  PROVE  /\ IsPrime(t.size)
         /\ hashTablesSize <= IF opt.balanced THEN t.size * nWorkers ELSE t.size
<1>1. opt \in Options /\ opt.s \in Ratio /\ nWorkers \in Nat \ {0} /\ hashTablesSize \in Nat
  BY StartupAssumption, SizingAssumption DEF StartTypeOK, Options, Word
<1>2. CASE ~ opt.balanced
  <2>1. t.size = hashTablesSize
    BY <1>2 DEF tableSizes
  <2> QED BY <1>2, <2>1, <1>1
<1>3. CASE opt.balanced
  <2>1. PICK part \in hashPart(hashTablesSize, nWorkers) : t \in workerSize(part)
    BY <1>3 DEF tableSizes
  <2> DEFINE x == workerDim(part, opt.s)
             defined == Fits(hashTablesSize + nWorkers, nWorkers) /\ Fits(x.num, x.den)
             S(dim) == [size : nextPrime(dim), bad : {~ (defined /\ DivisorFound(dim))}]
  <2>2. workerSize(part) = UNION {S(dim) : dim \in ToUnsigned(x.num, x.den)}
    BY DEF workerSize
  <2>3. PICK dim \in ToUnsigned(x.num, x.den) : t \in S(dim)
    <3> HIDE DEF S, x
    <3> QED BY <2>1, <2>2
  <2>4. t.size \in nextPrime(dim) /\ defined /\ DivisorFound(dim)
    <3>1. t.bad = ~ (defined /\ DivisorFound(dim)) /\ t.size \in nextPrime(dim)
      <4> HIDE DEF defined, x
      <4> QED BY <2>3
    <3> QED BY <3>1
  <2>5. part \in Word /\ hashTablesSize + nWorkers <= (part + 1) * nWorkers
    <3>1. hashTablesSize + nWorkers \in Nat /\ nWorkers \in Nat
      BY <1>1
    <3> QED BY <3>1, <2>1, <2>4, Conversion DEF hashPart
  <2>6. part \in Nat /\ opt.s.num \in Nat /\ opt.s.den \in Nat \ {0}
    BY <1>1, <2>5, SizingAssumption DEF Word, Ratio
  <2>7. x.num \in Nat /\ x.den \in Nat
    BY <2>6 DEF workerDim
  <2>8. dim \in Word /\ x.num <= (dim + 1) * x.den
    <3> HIDE DEF x
    <3> QED BY <2>3, <2>4, <2>7, Conversion
  <2>9. t.size \in Word /\ t.size > dim /\ IsPrime(t.size)
    BY <2>4, <2>8, NextPrimeResult
  <2>10. part <= t.size
    <3> DEFINE sn == opt.s.num
               sd == opt.s.den
    <3>1. dim \in Nat /\ sn \in Nat /\ sd \in Nat \ {0}
      BY <2>6, <2>8, SizingAssumption DEF Word
    <3>2. part * (sd + sn) <= (dim + 1) * sd
      BY <2>8 DEF workerDim
    <3> HIDE DEF sn, sd
    <3>3. part * sd <= part * (sd + sn)
      BY <3>1, <2>6
    <3>4. part * sd <= (dim + 1) * sd
      BY <3>1, <3>2, <3>3, <2>6
    <3>5. part <= dim + 1
      BY <3>1, <3>4, <2>6
    <3> QED BY <3>1, <3>5, <2>6, <2>9, SizingAssumption DEF Word
  <2>11. hashTablesSize <= part * nWorkers
    BY <2>5, <2>6, <1>1
  <2>12. part * nWorkers <= t.size * nWorkers
    BY <2>6, <2>9, <2>10, <1>1, SizingAssumption DEF Word
  <2>13. t.size * nWorkers \in Nat /\ part * nWorkers \in Nat
    BY <2>6, <2>9, <1>1, SizingAssumption DEF Word
  <2> QED BY <1>3, <1>1, <2>9, <2>11, <2>12, <2>13
<1> QED BY <1>2, <1>3

(* No table passes the assertion empty. *)
LEMMA AssertedSize ==
  ASSUME StartTypeOK, LargeEnough(hashTablesSize, opt.y)
  PROVE  hashTablesSize # 0 /\ hashTablesSize \in Nat /\ opt.y.num \in Nat /\ opt.y.den \in Nat
<1>1. opt \in Options /\ opt.y \in Ratio /\ hashTablesSize \in Nat
  BY StartupAssumption, SizingAssumption DEF StartTypeOK, Options, Word
<1>2. opt.y.num \in Nat /\ opt.y.den \in Nat
  BY <1>1 DEF Ratio
<1> QED BY <1>1, <1>2 DEF LargeEnough

(* The farm. *)
LEMMA FarmInvStep ==
  ASSUME StartTypeOK, SizeInv, FarmInv, StartNext
  PROVE  FarmInv'
<1> USE DEF GoesTo, Exits, Aborts, FarmInv, Farmed, sizes, emitter, farm, analyzer
<1>1. CASE BlockSignals \/ ParseArgs \/ SizeTables \/ AssertSize \/ ComputeThreshold
  BY <1>1 DEF BlockSignals, ParseArgs, SizeTables, AssertSize, ComputeThreshold
<1>2. CASE OpenDevice \/ InstallIPFilter \/ InstallUserFilter \/ FindDatalink
  BY <1>2 DEF OpenDevice, InstallIPFilter, InstallUserFilter, FindDatalink
<1>3. CASE BuildWorkers
  <2>1. PICK t \in tableSizes :
          /\ workerTable' = t.size
          /\ undefined' = (undefined \/ t.bad)
          /\ IF opt.z % ShortMod = 0 \/ t.size = 0
             THEN Aborts /\ UNCHANGED <<built, coefficient>>
             ELSE /\ GoesTo("analyzer")
                  /\ built' = nWorkers
                  /\ coefficient' \in [KeyByte -> Coefficients(t.size)]
    BY <1>3 DEF BuildWorkers
  <2>2. at = "workers" /\ UNCHANGED <<opt, nWorkers, hashTablesSize>>
    BY <1>3 DEF BuildWorkers
  <2>3. CASE opt.z % ShortMod = 0 \/ t.size = 0
    BY <2>1, <2>2, <2>3
  <2>4. CASE ~ (opt.z % ShortMod = 0 \/ t.size = 0)
    <3>1. /\ at' = "analyzer" /\ built' = nWorkers /\ workerTable' = t.size /\ t.size # 0
          /\ coefficient' \in [KeyByte -> Coefficients(t.size)]
      BY <2>1, <2>4
    <3>2. ASSUME ~ undefined'
          PROVE  /\ IsPrime(t.size)
                 /\ hashTablesSize <= IF opt.balanced THEN t.size * nWorkers ELSE t.size
      <4>1. ~ undefined /\ ~ t.bad
        BY <2>1, <3>2, TableSizesType DEF StartTypeOK
      <4>2. LargeEnough(hashTablesSize, opt.y)
        BY <2>2 DEF SizeInv, Asserted, Computed
      <4>3. hashTablesSize # 0
        BY <4>2, AssertedSize
      <4>4. IsPrime(hashTablesSize)
        BY <4>1, <4>3, <2>2 DEF SizeInv, Computed
      <4> QED BY <4>1, <4>3, <4>4, <3>1, TableSizesHold
    <3> QED BY <2>2, <3>1, <3>2
  <2> QED BY <2>3, <2>4
<1>4. CASE BuildAnalyzer
  <2>1. /\ at = "analyzer" /\ UNCHANGED <<opt, sizes, farm>> /\ process' = "up" /\ at' = "go"
        /\ flowMemSize' = IF opt.balanced THEN (workerTable * built) % WordMod ELSE workerTable
    BY <1>4 DEF BuildAnalyzer
  <2>2. ASSUME ~ undefined, workerTable * built < WordMod
        PROVE  flowMemSize' >= hashTablesSize
    <3>1. workerTable * built \in Nat /\ WordMod \in Nat \ {0}
      BY SizingAssumption DEF StartTypeOK, Word
    <3>2. (workerTable * built) % WordMod = workerTable * built
      BY <3>1, <2>2
    <3>3. hashTablesSize <= IF opt.balanced THEN workerTable * built ELSE workerTable
      BY <2>1, <2>2
    <3> QED BY <2>1, <3>2, <3>3, SizingAssumption DEF StartTypeOK, Word
  <2> QED BY <2>1, <2>2
<1>5. CASE OpenReport
  BY <1>5 DEF OpenReport
<1> QED BY <1>1, <1>2, <1>3, <1>4, <1>5 DEF StartNext

(* The strengthening of main's part holds through its steps. *)
LEMMA StartInvStep ==
  ASSUME StartInv, StartNext
  PROVE  StartInv'
BY StartTypeStep, SizeInvStep, ThresholdInvStep, EmitterInvStep, FarmInvStep, ReportInvStep
   DEF StartInv

(* No packet is in work before the farm runs. *)
LEMMA NoPacketBefore ==
  ASSUME StartInv, PathTypeOK, PacketInv, StartNext, UNCHANGED pathVars
  PROVE  PathTypeOK' /\ PacketInv'
<1>1. at # "run"
  BY DEF StartNext, BlockSignals, ParseArgs, SizeTables, AssertSize, ComputeThreshold,
         OpenDevice, InstallIPFilter, InstallUserFilter, FindDatalink, BuildWorkers,
         BuildAnalyzer, OpenReport
<1>2. ~ idx' > 0
  BY <1>1 DEF PacketInv, pathVars
<1>3. StartTypeOK'
  BY StartInvStep DEF StartInv
<1> QED BY <1>2, <1>3 DEF PacketInv, PathTypeOK, pathVars

(* A packet is taken. *)
LEMMA HandleStep ==
  ASSUME IInv, NEW f \in Frame, Handle(f)
  PROVE  PathTypeOK' /\ PacketInv'
<1> USE DEF IInv, StartInv, PathTypeOK
<1>1. /\ at = "run" /\ UNCHANGED startVars /\ Accepted(f)
      /\ frame' = f /\ fid' \in FlowIds(f) /\ victim' = Seed[fid'] % numWorkers
      /\ idx' = 1 /\ hash' = 0
  BY DEF Handle, dispatchPolicy
<1>2. UNCHANGED <<process, at, opt, nWorkers, hashTablesSize, wThreshold, undefined, offline, bpf,
                  numWorkers, built, workerTable, coefficient, flowMemSize, t_threshold, report>>
  BY <1>1 DEF startVars, sizes, emitter, farm, analyzer
<1>3. fid' \in Key
  BY <1>1 DEF FlowIds
<1>4. Seed[fid'] \in Nat /\ numWorkers \in Nat \ {0}
  BY <1>3, PathAssumption DEF StartTypeOK
<1>5. victim' \in Nat /\ victim' < numWorkers
  BY <1>1, <1>4
<1>6. workerTable \in Nat /\ workerTable # 0
  BY <1>1, SizingAssumption DEF FarmInv, Farmed, StartTypeOK, Word
<1>7. PathTypeOK'
  <2>1. StartTypeOK'
    BY <1>2 DEF StartTypeOK
  <2>2. 1 \in 0..(KeySize + 1)
    BY HashAssumption
  <2>3. 0 \in Int32
    BY SizingAssumption, HashAssumption DEF Int32, IntMax
  <2> QED BY <2>1, <2>2, <2>3, <1>1, <1>3, <1>5
<1>8. PacketInv'
  <2>1. Accepted(frame)' /\ (fid \in FlowIds(frame))'
    BY <1>1, <1>2 DEF Accepted, FlowIds
  <2>2. (hash \in 0..(workerTable - 1))'
    BY <1>1, <1>2, <1>6
  <2> QED BY <2>1, <2>2, <1>1, <1>2, <1>5 DEF PacketInv
<1> QED BY <1>7, <1>8

(* A byte is hashed. *)
LEMMA HashByteStep ==
  ASSUME IInv, HashByte
  PROVE  PathTypeOK' /\ PacketInv'
<1> USE DEF IInv, StartInv, PathTypeOK
<1>1. /\ idx \in KeyByte /\ UNCHANGED <<startVars, frame, fid, victim>>
      /\ hash' = HashStep(hash, fid[idx], coefficient[idx], workerTable)
      /\ idx' = idx + 1
  BY DEF HashByte
<1>2. UNCHANGED <<process, at, opt, nWorkers, hashTablesSize, wThreshold, undefined, offline, bpf,
                  numWorkers, built, workerTable, coefficient, flowMemSize, t_threshold, report>>
  BY <1>1 DEF startVars, sizes, emitter, farm, analyzer
<1>3. idx > 0 /\ idx \in Nat /\ idx' \in 0..(KeySize + 1)
  BY <1>1, HashAssumption DEF KeyByte
<1>4. /\ at = "run" /\ victim < numWorkers /\ Accepted(frame) /\ fid \in FlowIds(frame)
      /\ NoOverflow(workerTable) => hash \in 0..(workerTable - 1)
  BY <1>3 DEF PacketInv
<1>5. /\ workerTable \in Word /\ workerTable # 0
      /\ coefficient[idx] \in Coefficients(workerTable) /\ coefficient[idx] \in Int32
  BY <1>1, <1>4 DEF FarmInv, Farmed, StartTypeOK
<1>6. fid[idx] \in 0..ByteMax
  BY <1>1 DEF Key
<1>7. hash' \in Int32
  BY <1>1, <1>5, <1>6, HashStepType
<1>8. NoOverflow(workerTable) => hash' \in 0..(workerTable - 1)
  BY <1>1, <1>4, <1>5, <1>6, HashStepBound
<1>9. StartTypeOK'
  BY <1>2 DEF StartTypeOK
<1>10. PathTypeOK'
  BY <1>1, <1>3, <1>7, <1>9
<1>11. PacketInv'
  <2>1. Accepted(frame)' /\ (fid \in FlowIds(frame))'
    BY <1>1, <1>2, <1>4 DEF Accepted, FlowIds
  <2> QED BY <2>1, <1>1, <1>2, <1>4, <1>8 DEF PacketInv
<1> QED BY <1>10, <1>11

(* The strengthening is inductive. *)
LEMMA IInvInductive ==
  ASSUME IInv, [Next]_vars
  PROVE  IInv'
<1>1. CASE StartNext /\ UNCHANGED pathVars
  BY <1>1, StartInvStep, NoPacketBefore DEF IInv
<1>2. ASSUME UNCHANGED startVars PROVE StartInv'
  <2>1. UNCHANGED <<process, at, opt, nWorkers, hashTablesSize, wThreshold, undefined, offline,
                    bpf, numWorkers, built, workerTable, coefficient, flowMemSize, t_threshold,
                    report>>
    BY <1>2 DEF startVars, sizes, emitter, farm, analyzer
  <2> QED BY <2>1 DEF IInv, StartInv, StartTypeOK, SizeInv, ThresholdInv, EmitterInv, FarmInv,
                      ReportInv, Farmed, Computed, Asserted, Bound, Opened, Filtered, AsAsked
<1>3. CASE \E f \in Frame : Handle(f)
  <2>1. UNCHANGED startVars
    BY <1>3 DEF Handle
  <2> QED BY <1>2, <1>3, <2>1, HandleStep DEF IInv
<1>4. CASE HashByte
  <2>1. UNCHANGED startVars
    BY <1>4 DEF HashByte
  <2> QED BY <1>2, <1>4, <2>1, HashByteStep DEF IInv
<1>5. CASE UseIndex
  <2>1. UNCHANGED startVars /\ idx' = 0 /\ hash' = 0 /\ victim' = 0
        /\ frame' = NoFrame /\ fid' = NoCoefficient
    BY <1>5 DEF UseIndex
  <2>2. NoCoefficient \in Key /\ NoFrame \in Frame /\ 0 \in Int32 /\ 0 \in 0..(KeySize + 1)
    BY SizingAssumption, HashAssumption DEF NoCoefficient, NoFrame, Frame, Key, Int32, IntMax
  <2>3. StartInv'
    BY <2>1, <1>2
  <2> QED BY <2>1, <2>2, <2>3 DEF IInv, StartInv, PathTypeOK, PacketInv
<1>6. CASE UNCHANGED vars
  <2>1. UNCHANGED startVars /\ UNCHANGED <<frame, fid, victim, idx, hash>>
    BY <1>6 DEF vars, pathVars
  <2>2. StartInv' /\ UNCHANGED <<at, opt, bpf, numWorkers, workerTable>>
    BY <2>1, <1>2 DEF startVars, emitter, farm
  <2> QED BY <2>1, <2>2 DEF IInv, StartInv, PathTypeOK, PacketInv, Accepted, FlowIds
<1> QED BY <1>1, <1>3, <1>4, <1>5, <1>6 DEF Next, Gone

(* It holds at the start. *)
LEMMA IInvInit ==
  ASSUME Init
  PROVE  IInv
<1> USE DEF Init, StartInit
<1>1. 0 \in Word /\ 1201 % WordMod \in Word
  BY SizingAssumption DEF Word
<1>2. 0 \in Int32 /\ 0 \in 0..(KeySize + 1)
  BY SizingAssumption, HashAssumption DEF Int32, IntMax
<1>3. NoCoefficient \in [KeyByte -> Int32] /\ NoCoefficient \in Key /\ NoFrame \in Frame
  BY <1>2, HashAssumption DEF NoCoefficient, NoFrame, Frame, Key
<1>4. StartTypeOK /\ PathTypeOK
  <2>1. hashTablesSize \in Word /\ wThreshold \in Word /\ workerTable \in Word
        /\ flowMemSize \in Word /\ t_threshold \in Word
    BY <1>1
  <2>2. coefficient \in [KeyByte -> Int32] /\ fid \in Key /\ frame \in Frame
    BY <1>3
  <2>3. hash \in Int32 /\ idx \in 0..(KeySize + 1) /\ victim \in Nat
    BY <1>2
  <2>b. undefined \in BOOLEAN /\ offline \in BOOLEAN
    BY Zenon
  <2>n. nWorkers \in Nat \ {0} /\ numWorkers \in Nat \ {0} /\ built \in Nat
    OBVIOUS
  <2>p. /\ process = "up" /\ at = "signals" /\ opt \in CommandLines
        /\ bpf = "none" /\ report = "former"
    BY Zenon
  <2>4. StartTypeOK
    BY <2>1, <2>2, <2>b, <2>n, <2>p DEF StartTypeOK
  <2> QED BY <2>2, <2>3, <2>4 DEF PathTypeOK
<1>5. StartInv
  BY <1>4 DEF StartInv, SizeInv, ThresholdInv, EmitterInv, FarmInv, ReportInv, Farmed, Computed,
              Asserted, Bound, Opened, Filtered
<1> QED BY <1>4, <1>5 DEF IInv, PacketInv

(* The strengthening is an invariant. *)
LEMMA IInvAlways == Spec => []IInv
<1>1. Init => IInv
  BY IInvInit
<1>2. IInv /\ [Next]_vars => IInv'
  BY IInvInductive
<1> QED BY <1>1, <1>2, PTL DEF Spec

-----------------------------------------------------------------------------
(* Types: every variable of the start-up and of the packet path keeps its  *)
(* type, whatever the language leaves undefined. *)
THEOREM PathTypeCorrect == Spec => []PathTypeOK
<1>1. IInv => PathTypeOK
  BY DEF IInv
<1> QED BY <1>1, IInvAlways, PTL

(* The tables the filters hash into have a prime number of buckets, in     *)
(* both builds, unless the size comes from undefined behaviour.            *)
THEOREM PrimeTables == Spec => []SizePrime
<1>1. IInv => SizePrime
  <2>1. SUFFICES ASSUME IInv, built > 0, ~ undefined
                 PROVE  IsPrime(hashTablesSize) /\ IsPrime(workerTable)
    BY DEF SizePrime
  <2>2. Farmed /\ StartTypeOK
    BY <2>1 DEF IInv, StartInv, FarmInv
  <2>3. LargeEnough(hashTablesSize, opt.y)
    BY <2>1, <2>2 DEF IInv, StartInv, SizeInv, Asserted, Computed, Farmed
  <2>4. hashTablesSize # 0
    BY <2>2, <2>3, AssertedSize
  <2>5. IsPrime(hashTablesSize)
    BY <2>1, <2>2, <2>4 DEF IInv, StartInv, SizeInv, Computed, Farmed
  <2>6. IsPrime(workerTable)
    BY <2>1, <2>2 DEF IInv, StartInv, FarmInv
  <2> QED BY <2>5, <2>6
<1> QED BY <1>1, IInvAlways, PTL

(* The assertion of main on the size of the tables never fails for a       *)
(* positive share and oversampling factor whose size is defined.           *)
THEOREM AssertionHolds == Spec => []AssertionSound
<1>1. IInv => AssertionSound
  BY DEF IInv, StartInv, SizeInv, Computed, AssertionSound
<1> QED BY <1>1, IInvAlways, PTL

(* The memory of the farm is never smaller than the flows that can be      *)
(* interesting, also where the workers share one table's size.             *)
THEOREM MemoryLargeEnough == Spec => []MemoryCoversFlows
<1>1. IInv => MemoryCoversFlows
  <2>1. SUFFICES ASSUME IInv, at \in {"go", "run"}, ~ undefined, workerTable * built < WordMod
                 PROVE  LargeEnough(flowMemSize, opt.y)
    BY DEF MemoryCoversFlows
  <2>2. LargeEnough(hashTablesSize, opt.y) /\ StartTypeOK /\ flowMemSize >= hashTablesSize
    BY <2>1 DEF IInv, StartInv, SizeInv, Asserted, Computed, FarmInv
  <2>3. hashTablesSize \in Nat /\ opt.y.num \in Nat /\ opt.y.den \in Nat /\ flowMemSize \in Nat
    BY <2>2, AssertedSize, SizingAssumption DEF StartTypeOK, Word
  <2>4. flowMemSize * opt.y.num >= hashTablesSize * opt.y.num
    BY <2>2, <2>3
  <2>5. flowMemSize * opt.y.num \in Nat /\ hashTablesSize * opt.y.num \in Nat
    BY <2>3
  <2> QED BY <2>2, <2>3, <2>4, <2>5 DEF LargeEnough
<1> QED BY <1>1, IInvAlways, PTL

(* Filters, tables and analyzer start from the share of the link asked for.*)
THEOREM ThresholdFaithful == Spec => []ThresholdAsAsked
<1>1. IInv => ThresholdAsAsked
  BY DEF IInv, StartInv, ThresholdInv, AsAsked, Bound, Asserted, Computed, ThresholdAsAsked
<1> QED BY <1>1, IInvAlways, PTL

(* No start that fails truncates the report of the run before. *)
THEOREM FormerReportSafe == Spec => []FormerReportKept
<1>1. IInv => FormerReportKept
  BY DEF IInv, StartInv, ReportInv, FormerReportKept
<1> QED BY <1>1, IInvAlways, PTL

(* The emitter dispatches to a worker that was built, and the hash of a    *)
(* flow id is an index of the table it is used with.                       *)
THEOREM AccessSafe == Spec => []AccessesInBounds
<1>1. IInv => (idx > 0 => victim < built)
  BY DEF IInv, StartInv, PacketInv, EmitterInv, FarmInv, Farmed, Opened, Bound, Asserted, Computed
<1>2. IInv => (idx = KeySize + 1 /\ NoOverflow(workerTable) => hash \in 0..(workerTable - 1))
  BY HashAssumption DEF IInv, PacketInv
<1>3. IInv => AccessesInBounds
  BY <1>1, <1>2 DEF AccessesInBounds
<1> QED BY <1>3, IInvAlways, PTL

(* Without a filter of the user the headers of the packet make its flow id.*)
THEOREM HeadersSafe == Spec => []HeadersRead
<1>1. IInv => HeadersRead
  <2>1. SUFFICES ASSUME IInv, idx > 0, opt.b = "none"
                 PROVE  frame.ip /\ \A b \in KeyByte :
                          b \notin PortBytes \/ frame.ports = "header" => fid[b] = frame.id[b]
    BY DEF HeadersRead
  <2>2. bpf = "ip" /\ Accepted(frame) /\ fid \in FlowIds(frame)
    BY <2>1 DEF IInv, StartInv, PacketInv, EmitterInv, Filtered, Opened, Bound, Asserted, Computed
  <2> QED BY <2>2 DEF Accepted, FlowIds
<1> QED BY <1>1, IInvAlways, PTL

-----------------------------------------------------------------------------
(* Every worker has stages, and the analyzer has the memory of them all.   *)
memory == IF opt.balanced THEN (workerTable * built) % WordMod ELSE workerTable

HandInv ==
  /\ Farmed => opt.z % ShortMod # 0
  /\ at \in {"go", "run"} => flowMemSize = memory

LEMMA HandInvStep == HandInv /\ [Next]_vars => HandInv'
<1> SUFFICES ASSUME HandInv, [Next]_vars PROVE HandInv'
  OBVIOUS
<1> USE DEF GoesTo, Exits, Aborts, HandInv, Farmed, memory, sizes, emitter, farm, analyzer
<1>1. CASE BlockSignals \/ ParseArgs \/ SizeTables \/ AssertSize \/ ComputeThreshold
  BY <1>1 DEF BlockSignals, ParseArgs, SizeTables, AssertSize, ComputeThreshold
<1>2. CASE OpenDevice \/ InstallIPFilter \/ InstallUserFilter \/ FindDatalink
  BY <1>2 DEF OpenDevice, InstallIPFilter, InstallUserFilter, FindDatalink
<1>3. CASE BuildWorkers
  <2>1. /\ at = "workers" /\ UNCHANGED opt
        /\ at' = "workers" \/ (at' = "analyzer" /\ opt.z % ShortMod # 0)
    BY <1>3 DEF BuildWorkers
  <2>2. QED
    BY <2>1
<1>4. CASE BuildAnalyzer
  BY <1>4 DEF BuildAnalyzer
<1>5. CASE OpenReport
  BY <1>5 DEF OpenReport
<1>6. CASE UNCHANGED startVars
  BY <1>6 DEF startVars
<1>7. CASE (\E f \in Frame : Handle(f)) \/ HashByte \/ UseIndex \/ Gone \/ UNCHANGED vars
  BY <1>6, <1>7 DEF Handle, HashByte, UseIndex, Gone, vars
<1>8. QED
  BY <1>1, <1>2, <1>3, <1>4, <1>5, <1>7 DEF Next, StartNext

(* What CaptureFarm, MultistageFilter and Thresholds assume of the numbers *)
(* they are given, provided that the sum of the tables fits a word.        *)
FarmMayRun ==
  /\ built \in Nat \ {0} /\ numWorkers = built
  /\ \A k \in Key : dispatchPolicy(k) \in 0..(built - 1)
  /\ opt.z % ShortMod \in Nat \ {0}
  /\ t_threshold \in Nat /\ t_threshold = wThreshold
  /\ workerTable * built < WordMod => flowMemSize \in Nat \ {0}

(* Where main starts the analyzer and the farm, after whatever happened on *)
(* the way, it hands over values that these components may be given: there *)
(* is a worker for every flow, a stage in every filter, and memory.        *)
THEOREM HandOver == Spec => [](at = "run" => FarmMayRun)
<1>1. Init => HandInv
  BY DEF Init, StartInit, HandInv, Farmed
<1>2. Spec => []HandInv
  BY <1>1, HandInvStep, PTL DEF Spec
<1>3. IInv /\ HandInv => (at = "run" => FarmMayRun)
  <2> SUFFICES ASSUME IInv, HandInv, at = "run" PROVE FarmMayRun
    OBVIOUS
  <2>1. /\ built = nWorkers /\ numWorkers = nWorkers /\ workerTable # 0
        /\ t_threshold = wThreshold /\ StartTypeOK
    BY DEF IInv, StartInv, FarmInv, EmitterInv, ThresholdInv, Farmed, Opened, Bound, Asserted,
           Computed
  <2>2. /\ built \in Nat \ {0} /\ t_threshold \in Nat /\ workerTable \in Nat \ {0}
        /\ opt \in Options
    BY <2>1, SizingAssumption, StartupAssumption DEF StartTypeOK, Word
  <2>3. \A k \in Key : dispatchPolicy(k) \in 0..(built - 1)
    <3>1. \A k \in Key : Seed[k] \in Nat
      BY PathAssumption
    <3>2. QED
      BY <2>1, <2>2, <3>1 DEF dispatchPolicy
  <2>4. opt.z % ShortMod \in Nat \ {0}
    <3>1. opt.z \in Nat /\ ShortMod \in Nat \ {0} /\ opt.z % ShortMod # 0
      BY <2>2, StartupAssumption DEF Options, HandInv, Farmed
    <3>2. QED
      BY <3>1
  <2>5. ASSUME workerTable * built < WordMod
        PROVE  flowMemSize \in Nat \ {0}
    <3> DEFINE product == workerTable * built
    <3>1. product \in Nat /\ product # 0
      BY <2>2
    <3> HIDE DEF product
    <3>2. product % WordMod = product
      BY <3>1, <2>5, SizingAssumption DEF product
    <3>3. memory \in Nat \ {0}
      BY <2>2, <3>1, <3>2 DEF memory, product
    <3>4. QED
      BY <3>3 DEF HandInv
  <2>6. QED
    BY <2>1, <2>2, <2>3, <2>4, <2>5 DEF FarmMayRun
<1>4. QED
  BY <1>2, <1>3, IInvAlways, PTL
=============================================================================
