--------------------------- MODULE ProgramProofs ---------------------------
(* mydeamon, cat_syscall, bmp and get_rss: their properties for any number *)
(* of processes, callers, pixels and files.  Each has its own section.     *)
EXTENDS MyDaemon, CatSyscall, Bmp, GetRss, FiniteSetTheorems, TLAPS

(***************************************************************************)
(* mydeamon.c                                                              *)
(***************************************************************************)

DaeLabels == {"none", "fork1", "setsid", "fork2", "sleep", "signal", "fork", "nap", "zombie"}

\* The one process that will be the daemon or is it.
Main(p) == daePc[p] \in {"fork1", "setsid", "fork2", "sleep", "signal", "fork"}

DaeInv ==
  /\ daePc \in [Pids -> DaeLabels] /\ daeSession \in [Pids -> 0..DaePids] /\ daeIgnore \in BOOLEAN
  /\ \A p, q \in Pids : Main(p) /\ Main(q) => p = q
  /\ \A p \in Pids : daePc[p] = "fork2" => daeSession[p] = p
  /\ Detached
  /\ \A p \in Pids : daePc[p] \in {"fork", "nap"} => daeIgnore
  /\ NoZombies

\* A process that forks, with a child or without.
LEMMA ForkKeeps ==
  ASSUME DaeInv, NEW p \in Pids, NEW from \in DaeLabels, NEW parent \in DaeLabels,
         NEW child \in DaeLabels, NEW failed \in DaeLabels,
         ForkAt(p, from, parent, child, failed), daeIgnore' = daeIgnore,
         <<from, parent, child, failed>> \in
           {<<"fork1", "none", "setsid", "none">>, <<"fork2", "none", "sleep", "none">>,
            <<"fork", "sleep", "nap", "sleep">>}
  PROVE  DaeInv'
<1> USE DaePidsAssumption DEF Pids
<1>1. Main(p) /\ daePc[p] = from
  BY DEF ForkAt, Main
<1>2. ASSUME NEW c \in Pids, FreePid(c),
             daePc' = [daePc EXCEPT ![p] = parent, ![c] = child],
             daeSession' = [daeSession EXCEPT ![c] = daeSession[p]]
      PROVE  DaeInv'
  <2>1. c # p /\ daeSession[p] # c /\ daePc[c] = "none"
    BY <1>1, <1>2 DEF FreePid, Main
  <2>2. \A q \in Pids : /\ daePc'[q] = IF q = p THEN parent ELSE IF q = c THEN child ELSE daePc[q]
                        /\ daeSession'[q] = IF q = c THEN daeSession[p] ELSE daeSession[q]
    BY <1>2, <2>1 DEF DaeInv
  <2>3. daePc' \in [Pids -> DaeLabels] /\ daeSession' \in [Pids -> 0..DaePids] /\ daeIgnore' \in BOOLEAN
    BY <1>2 DEF DaeInv
  <2>4. \A q \in Pids : q # p => ~Main(q)
    BY <1>1 DEF DaeInv
  <2>5. \A q, r \in Pids : Main(q)' /\ Main(r)' => q = r
    BY <1>1, <2>2, <2>4 DEF Main
  <2>6. \A q \in Pids : daePc'[q] = "fork2" => daeSession'[q] = q
    BY <1>1, <2>1, <2>2, <2>4 DEF Main
  <2>7. Detached'
    BY <1>1, <2>1, <2>2, <2>4 DEF Main, DaeInv, Detached, InLoop
  <2>8. \A q \in Pids : daePc'[q] \in {"fork", "nap"} => daeIgnore'
    BY <1>1, <2>2 DEF DaeInv
  <2>9. NoZombies'
    BY <2>2 DEF DaeInv, NoZombies
  <2> QED BY <2>3, <2>5, <2>6, <2>7, <2>8, <2>9 DEF DaeInv
<1>3. ASSUME daePc' = [daePc EXCEPT ![p] = failed], daeSession' = daeSession PROVE DaeInv'
  BY <1>1, <1>3 DEF DaeInv, Main, Detached, InLoop, NoZombies, DaeLabels
<1> QED BY <1>2, <1>3 DEF ForkAt

LEMMA DaeStep == DaeInv /\ [DaeNext]_daeVars => DaeInv'
<1> USE DaePidsAssumption DEF Pids
<1> SUFFICES ASSUME DaeInv, [DaeNext]_daeVars PROVE DaeInv'
  OBVIOUS
<1>1. CASE UNCHANGED daeVars
  BY <1>1 DEF daeVars, DaeInv, Main, Detached, InLoop, NoZombies
<1>2. ASSUME NEW p \in Pids, FirstFork(p) \/ SecondFork(p) \/ LoopFork(p) PROVE DaeInv'
  BY <1>2, ForkKeeps DEF FirstFork, SecondFork, LoopFork, DaeLabels
<1>3. ASSUME NEW p \in Pids, Setsid(p) PROVE DaeInv'
  BY <1>3 DEF Setsid, DaeInv, Main, Detached, InLoop, NoZombies, DaeLabels
<1>4. ASSUME NEW p \in Pids, Report(p) PROVE DaeInv'
  BY <1>4 DEF Report, DaeInv, Main, Detached, InLoop, NoZombies, DaeLabels
<1>5. ASSUME NEW p \in Pids, IgnoreChildren(p) PROVE DaeInv'
  BY <1>5 DEF IgnoreChildren, DaeInv, Main, Detached, InLoop, NoZombies, DaeLabels
<1>6. ASSUME NEW p \in Pids, ChildReport(p) PROVE DaeInv'
  BY <1>6 DEF ChildReport, DaeInv, Main, Detached, InLoop, NoZombies, DaeLabels
<1> QED BY <1>1, <1>2, <1>3, <1>4, <1>5, <1>6 DEF DaeNext

LEMMA DaeInitInv == DaeInit => DaeInv
<1> SUFFICES ASSUME DaeInit PROVE DaeInv
  OBVIOUS
<1>1. daePc \in [Pids -> DaeLabels] /\ \A p \in Pids : daePc[p] = IF p = 1 THEN "fork1" ELSE "none"
  BY DEF DaeInit, DaeLabels
<1>2. daeSession \in [Pids -> 0..DaePids]
  BY DaePidsAssumption DEF DaeInit
<1> QED BY <1>1, <1>2 DEF DaeInit, DaeInv, Main, Detached, InLoop, NoZombies

\* mydeamon.c 15-44 and 50-80: one daemon, without a terminal and without
\* zombies, for any number of processes and whichever forks fail.
THEOREM OneDaemonOnly == DaeSpec => []DaemonSound
<1>1. DaeInv => DaemonSound
  BY DEF DaeInv, DaemonSound, OneDaemon, InLoop, Main
<1> QED BY DaeInitInv, DaeStep, <1>1, PTL DEF DaeSpec

(***************************************************************************)
(* bmp.c                                                                   *)
(***************************************************************************)

\* A row's pixels and what Pad skips are whole words.
LEMMA PadFills == ASSUME NEW w \in Nat PROVE RowBytes(w) = 3 * w + Pad(w) /\ Pad(w) \in 0..3
  BY DEF RowBytes, Pad

\* The last byte of a pixel is inside the picture.
LEMMA PixelInside ==
  ASSUME NEW w \in Nat, NEW h \in Nat, NEW i \in Nat, NEW j \in Nat, i < h, j < w
  PROVE  i * w * 3 + j * 3 + 2 < w * h * 3 /\ i * w * 3 + j * 3 + 2 \in Nat
<1>1. i * w \in Nat /\ w * h \in Nat
  OBVIOUS
<1>2. (i + 1) * w = i * w + w
  OBVIOUS
<1>3. (h - i - 1) * w \in Nat /\ (i + 1) * w + (h - i - 1) * w = w * h
  OBVIOUS
<1> QED BY <1>1, <1>2, <1>3

LEMMA NextRow == ASSUME NEW i \in Nat, NEW b \in Nat PROVE (i + 1) * b = i * b + b
  OBVIOUS
LEMMA SmallRemainder == ASSUME NEW n \in Nat, NEW m \in Nat \ {0}, n < m PROVE n % m = n
  OBVIOUS

BmpInv ==
  /\ ImgWidth \in Nat /\ ImgHeight \in Nat
  /\ bmpRow \in 0..ImgHeight /\ bmpCol \in 0..ImgWidth
  /\ bmpIn \in Nat
  /\ RowsInStep
  /\ bmpStored = -1 \/ (bmpStored \in Nat /\ bmpStored < ImgWidth * ImgHeight * 3)

LEMMA BmpStep == BmpInv /\ [BmpNext]_bmpVars => BmpInv'
<1> SUFFICES ASSUME BmpInv, [BmpNext]_bmpVars PROVE BmpInv'
  OBVIOUS
<1>1. CASE UNCHANGED bmpVars \/ BmpMalloc \/ BmpEnd
  BY <1>1 DEF bmpVars, BmpMalloc, BmpEnd, BmpInv, RowsInStep
<1>2. CASE BmpPixel
  <2>1. /\ ImgWidth' = ImgWidth /\ ImgHeight' = ImgHeight /\ bmpRow' = bmpRow /\ bmpCol' = bmpCol + 1
        /\ bmpRow \in Nat /\ bmpCol \in Nat /\ bmpRow < ImgHeight /\ bmpCol < ImgWidth
        /\ ImgWidth \in Nat /\ ImgHeight \in Nat
        /\ bmpStored' = bmpRow * ImgWidth * 3 + bmpCol * 3 + 2
    BY <1>2 DEF BmpPixel, BmpInv
  <2>2. bmpStored' \in Nat /\ bmpStored' < ImgWidth' * ImgHeight' * 3
    BY <2>1, PixelInside
  <2>3. bmpIn' \in Nat /\ bmpIn' = bmpIn + 3 /\ bmpIn \in Nat
    BY <1>2 DEF BmpPixel, BmpInv
  <2>4. RowsInStep'
    <3>1. RowBytes(ImgWidth) \in Nat
      BY <2>1, PadFills
    <3>2. bmpRow * RowBytes(ImgWidth) \in Nat
      BY <2>1, <3>1
    <3>3. bmpIn = bmpRow * RowBytes(ImgWidth) + 3 * bmpCol
      BY DEF BmpInv, RowsInStep
    <3> HIDE DEF RowBytes
    <3> QED BY <2>1, <2>3, <3>2, <3>3 DEF RowsInStep
  <2> QED BY <2>1, <2>2, <2>3, <2>4 DEF BmpInv
<1>3. CASE BmpRowEnd
  <2>1. /\ ImgWidth' = ImgWidth /\ ImgHeight' = ImgHeight /\ bmpRow' = bmpRow + 1 /\ bmpCol' = 0
        /\ bmpRow \in Nat /\ bmpRow < ImgHeight /\ bmpCol = ImgWidth
        /\ ImgWidth \in Nat /\ ImgHeight \in Nat
        /\ bmpStored' = bmpStored /\ bmpIn' = bmpIn + Pad(ImgWidth) /\ bmpIn \in Nat
    BY <1>3 DEF BmpRowEnd, BmpInv
  <2>2. RowBytes(ImgWidth) = 3 * ImgWidth + Pad(ImgWidth) /\ Pad(ImgWidth) \in Nat /\ RowBytes(ImgWidth) \in Nat
    BY <2>1, PadFills
  <2>3. bmpIn = bmpRow * RowBytes(ImgWidth) + 3 * ImgWidth
    BY <2>1 DEF BmpInv, RowsInStep
  <2>4. bmpIn' = bmpRow * RowBytes(ImgWidth) + RowBytes(ImgWidth)
    <3>1. bmpRow * RowBytes(ImgWidth) \in Nat
      BY <2>1, <2>2
    <3> QED BY <2>1, <2>2, <2>3, <3>1
  <2>5. bmpIn' = (bmpRow + 1) * RowBytes(ImgWidth)
    BY <2>1, <2>2, <2>4, NextRow
  <2>6. RowsInStep'
    BY <2>1, <2>2, <2>5 DEF RowsInStep, RowBytes
  <2> QED BY <2>1, <2>2, <2>6 DEF BmpInv
<1> QED BY <1>1, <1>2, <1>3 DEF BmpNext

LEMMA BmpInitInv == BmpInit => BmpInv
BY BmpAssumption DEF BmpInit, BmpInv, RowsInStep, RowBytes

\* bmp.c 36-83: for every picture each row is read from its place and no
\* pixel is stored behind the buffer whose size did not overflow.
THEOREM PixelsInPlace == BmpSpec => []BmpSound
<1>1. BmpInv => BmpSound
  <2> SUFFICES ASSUME BmpInv, ImgWidth * ImgHeight * 3 < BmpWord PROVE bmpStored < BuffSize \/ bmpStored = -1
    BY DEF BmpInv, BmpSound, InBuffer
  <2>1. ImgWidth * ImgHeight * 3 \in Nat
    BY DEF BmpInv
  <2>2. BuffSize = ImgWidth * ImgHeight * 3
    BY <2>1, BmpAssumption, SmallRemainder DEF BuffSize
  <2> QED BY <2>2 DEF BmpInv
<1> QED BY BmpInitInv, BmpStep, <1>1, PTL DEF BmpSpec

(***************************************************************************)
(* cat_syscall.c                                                           *)
(***************************************************************************)

CatLabels == {"idle", "read", "write", "old", "kernel", "kernel for audit", "astray"}

\* The callers between counts++'s first read and its write.
Pending == {c \in CatCallers : catPc[c] \in {"read", "write"}}

TableInv ==
  /\ catLoaded \in BOOLEAN /\ catFound \in BOOLEAN
  /\ catPc \in [CatCallers -> CatLabels]
  /\ ~catLoaded => catEntry = "sys"
  /\ catLoaded /\ catFound => catEntry = "audit" /\ catOld = "sys"
  /\ catLoaded /\ ~catFound => catEntry = "sys" /\ \A c \in CatCallers : catPc[c] \in {"idle", "kernel"}
  /\ OnlyUnloadHurts

\* No value read or written exceeds the calls that are behind their increment.
CountInv ==
  /\ IsFiniteSet(Pending)
  /\ counts \in Nat /\ catCalls \in Nat /\ catTmp \in [CatCallers -> Nat]
  /\ counts + Cardinality(Pending) <= catCalls
  /\ \A c \in CatCallers : catPc[c] = "write" => catTmp[c] + Cardinality(Pending) <= catCalls
  /\ catCalls > 0 => Pending # {} \/ counts > 0

CatInv == TableInv /\ CountInv

\* A step that no caller between read and write takes.
LEMMA SameCount ==
  ASSUME CountInv, UNCHANGED <<counts, catCalls, catTmp>>,
         \A c \in CatCallers : (catPc[c] \in {"read", "write"} \/ catPc'[c] \in {"read", "write"}) => catPc'[c] = catPc[c]
  PROVE  CountInv'
<1>1. Pending' = Pending
  BY DEF Pending
<1> HIDE DEF Pending
<1> QED BY <1>1 DEF CountInv

LEMMA CatModuleStep == ASSUME CatInv, CatLoad \/ CatUnload PROVE CatInv'
<1>1. CASE CatLoad
  <2>1. Pending' = {} /\ IsFiniteSet({}) /\ Cardinality({}) = 0
    BY <1>1, FS_EmptySet DEF CatLoad, Pending
  <2>2. CountInv'
    <3>1. counts' = 0 /\ catCalls' = 0 /\ catTmp' = catTmp /\ \A c \in CatCallers : catPc'[c] = "idle"
      BY <1>1 DEF CatLoad
    <3> HIDE DEF Pending
    <3> QED BY <2>1, <3>1 DEF CatInv, CountInv
  <2>3. TableInv'
    <3>1. catFound' \in {TRUE, FALSE}
      BY <1>1 DEF CatLoad, find_sys_call_table
    <3> QED BY <1>1, <3>1 DEF CatLoad, CatInv, TableInv, OnlyUnloadHurts
  <2> QED BY <2>2, <2>3 DEF CatInv
<1>2. CASE CatUnload
  <2>1. TableInv'
    BY <1>2 DEF CatUnload, CatInv, TableInv, OnlyUnloadHurts
  <2>2. CountInv'
    BY <1>2, SameCount DEF CatUnload, CatInv
  <2> QED BY <2>1, <2>2 DEF CatInv
<1> QED BY <1>1, <1>2

LEMMA CatTableStep ==
  ASSUME CatInv, NEW c \in CatCallers,
         CatCall(c) \/ CountRead(c) \/ CountWrite(c) \/ CallOld(c) \/ CatReturn(c)
  PROVE  TableInv'
<1>1. UNCHANGED <<catLoaded, catFound, catEntry, catOld>>
  BY DEF CatCall, CountRead, CountWrite, CallOld, CatReturn, catModule
<1>2. PICK to \in CatLabels : catPc' = [catPc EXCEPT ![c] = to]
  BY DEF CatCall, CountRead, CountWrite, CallOld, CatReturn, CatGoto, CatLabels
<1>3. to = "astray" => ~catLoaded
  BY <1>2 DEF CatInv, TableInv, CatCall, CountRead, CountWrite, CallOld, CatReturn, CatGoto, CatLabels
<1>4. catLoaded /\ ~catFound => to \in {"idle", "kernel"}
  BY <1>2 DEF CatInv, TableInv, CatCall, CountRead, CountWrite, CallOld, CatReturn, CatGoto, CatLabels
<1> QED BY <1>1, <1>2, <1>3, <1>4 DEF CatInv, TableInv, OnlyUnloadHurts

LEMMA CatCallStep == ASSUME CatInv, NEW c \in CatCallers, CatCall(c) PROVE CountInv'
<1> DEFINE n == Cardinality(Pending)
<1>1. n \in Nat /\ IsFiniteSet(Pending)
  BY FS_CardinalityType DEF CatInv, CountInv
<1>2. CASE catEntry = "audit"
  <2>1. /\ catPc[c] = "idle" /\ catPc' = [catPc EXCEPT ![c] = "read"]
        /\ catCalls' = catCalls + 1 /\ UNCHANGED <<counts, catTmp>>
    BY <1>2 DEF CatCall, CatGoto
  <2>2. Pending' = Pending \cup {c} /\ c \notin Pending
    BY <2>1 DEF Pending, CatInv, TableInv
  <2>3. IsFiniteSet(Pending') /\ Cardinality(Pending') = n + 1 /\ Pending' # {}
    BY <1>1, <2>2, FS_AddElement
  <2>4. \A d \in CatCallers : catPc'[d] = "write" => catPc[d] = "write"
    BY <2>1 DEF CatInv, TableInv
  <2> HIDE DEF Pending
  <2> QED BY <1>1, <2>1, <2>3, <2>4 DEF CatInv, CountInv
<1>3. CASE catEntry # "audit"
  BY <1>3, SameCount DEF CatCall, CatGoto, CatInv, TableInv
<1> QED BY <1>2, <1>3

LEMMA CountReadStep == ASSUME CatInv, NEW c \in CatCallers, CountRead(c) PROVE CountInv'
<1> DEFINE n == Cardinality(Pending)
<1>1. n \in Nat
  BY FS_CardinalityType DEF CatInv, CountInv
<1>2. /\ catPc[c] = "read" /\ catPc' = [catPc EXCEPT ![c] = "write"]
      /\ catTmp' = [catTmp EXCEPT ![c] = counts] /\ UNCHANGED <<counts, catCalls>>
  BY DEF CountRead, CatGoto
<1>3. Pending' = Pending
  BY <1>2 DEF Pending, CatInv, TableInv
<1>4. \A d \in CatCallers : catPc'[d] = "write" => d = c \/ catPc[d] = "write"
  BY <1>2 DEF CatInv, TableInv
<1> HIDE DEF Pending
<1> QED BY <1>1, <1>2, <1>3, <1>4 DEF CatInv, CountInv

LEMMA CountWriteStep == ASSUME CatInv, NEW c \in CatCallers, CountWrite(c) PROVE CountInv'
<1> DEFINE n == Cardinality(Pending)
<1>1. n \in Nat /\ IsFiniteSet(Pending)
  BY FS_CardinalityType DEF CatInv, CountInv
<1>2. /\ catPc[c] = "write" /\ catPc' = [catPc EXCEPT ![c] = "old"]
      /\ counts' = catTmp[c] + 1 /\ UNCHANGED <<catTmp, catCalls>>
  BY DEF CountWrite, CatGoto
<1>3. Pending' = Pending \ {c} /\ c \in Pending
  BY <1>2 DEF Pending, CatInv, TableInv
<1>4. IsFiniteSet(Pending') /\ Cardinality(Pending') = n - 1
  BY <1>1, <1>3, FS_RemoveElement
<1>5. \A d \in CatCallers : catPc'[d] = "write" => catPc[d] = "write"
  BY <1>2 DEF CatInv, TableInv
<1>6. catTmp[c] \in Nat /\ catTmp[c] + n <= catCalls
  BY <1>2 DEF CatInv, CountInv
<1> HIDE DEF Pending
<1> QED BY <1>1, <1>2, <1>4, <1>5, <1>6 DEF CatInv, CountInv

LEMMA CatStep == CatInv /\ [CatNext]_catVars => CatInv'
<1> SUFFICES ASSUME CatInv, [CatNext]_catVars PROVE CatInv'
  OBVIOUS
<1>1. CASE UNCHANGED catVars
  <2>1. TableInv'
    BY <1>1 DEF catVars, CatInv, TableInv, OnlyUnloadHurts
  <2>2. CountInv'
    BY <1>1, SameCount DEF catVars, CatInv
  <2> QED BY <2>1, <2>2 DEF CatInv
<1>2. ASSUME NEW c \in CatCallers, CallOld(c) \/ CatReturn(c) PROVE CountInv'
  <2>1. UNCHANGED <<counts, catCalls, catTmp>>
    BY <1>2 DEF CallOld, CatReturn
  <2>2. \A d \in CatCallers : (catPc[d] \in {"read", "write"} \/ catPc'[d] \in {"read", "write"}) => catPc'[d] = catPc[d]
    BY <1>2 DEF CallOld, CatReturn, CatGoto, CatInv, TableInv
  <2> QED BY <2>1, <2>2, SameCount DEF CatInv
<1> QED BY <1>1, <1>2, CatModuleStep, CatTableStep, CatCallStep, CountReadStep, CountWriteStep DEF CatNext, CatInv

LEMMA CatInitInv == CatInit => CatInv
<1> SUFFICES ASSUME CatInit PROVE CatInv
  OBVIOUS
<1>1. Pending = {} /\ IsFiniteSet({}) /\ Cardinality({}) = 0
  BY FS_EmptySet DEF CatInit, Pending
<1>2. TableInv
  BY DEF CatInit, TableInv, OnlyUnloadHurts, CatLabels
<1>3. counts = 0 /\ catCalls = 0 /\ catTmp \in [CatCallers -> Nat] /\ \A c \in CatCallers : catPc[c] = "idle"
  BY DEF CatInit
<1> HIDE DEF Pending
<1> QED BY <1>1, <1>2, <1>3 DEF CatInv, CountInv

\* cat_syscall.c 56-80: the table gets the kernel's routine back, only an
\* unload under a call harms it, and racing increments lose calls but neither
\* invent any nor lose all, for any number of callers.
THEOREM WrapperTransparent == CatSpec => []WrapperSound
<1>1. CatInv => WrapperSound
  <2> SUFFICES ASSUME CatInv PROVE CountsWithin
    BY DEF CatInv, TableInv, WrapperSound, TableRestored
  <2>1. Cardinality(Pending) \in Nat
    BY FS_CardinalityType DEF CatInv, CountInv
  <2>2. (\A c \in CatCallers : catPc[c] \notin {"read", "write"}) => Pending = {}
    BY DEF Pending
  <2> HIDE DEF Pending
  <2> QED BY <2>1, <2>2 DEF CatInv, CountInv, CountsWithin
<1> QED BY CatInitInv, <1>1, CatStep, PTL DEF CatSpec

(***************************************************************************)
(* get_rss.c                                                               *)
(***************************************************************************)

RssLabels == {"none", "opendir", "loop", "read", "fetch", "receive", "rewrite", "write", "items", "ended", "died"}

RssTypeInv ==
  /\ rssUrl \in [Files -> {"url", "empty"}]
  /\ rssPc \in [Procs -> RssLabels]
  /\ rssAt \in [Procs -> 0..RssFiles]
  /\ rssLine \in [Procs -> {"url", "empty"}]

\* A process that will write a URL has one.
RssLineInv == \A p \in Procs : rssPc[p] \in {"receive", "rewrite", "write"} => rssLine[p] = "url"

\* A process between its fork and its write is at a file it is named by.
RssAtInv == \A p \in Procs : rssPc[p] \in {"read", "fetch", "receive", "rewrite", "write"} => rssAt[p] \in p

\* The names tell processes apart: a process has passed every file it is named
\* by, one that is not there has passed none, and the child for a file is
\* there only when its parent has passed that file.
RssNameInv ==
  /\ \A p \in Procs : rssPc[p] # "none" => \A g \in p : g <= rssAt[p]
  /\ \A p \in Procs : rssPc[p] = "none" => rssAt[p] = 0
  /\ \A p \in Procs, f \in Files :
       (\A g \in p : g < f) /\ rssPc[p \cup {f}] # "none" => f <= rssAt[p]

RssInv == RssTypeInv /\ RssLineInv /\ RssAtInv /\ RssNameInv /\ UrlKept /\ FirstFileWhole

LEMMA RssInitInv == RssInit => RssInv
<1> USE RssFilesAssumption DEF Files, Procs
<1> SUFFICES ASSUME RssInit PROVE RssInv
  OBVIOUS
<1>1. RssTypeInv
  BY DEF RssInit, RssTypeInv, RssLabels
<1>2. RssLineInv /\ RssAtInv /\ UrlKept /\ FirstFileWhole
  BY DEF RssInit, RssLineInv, RssAtInv, UrlKept, FirstFileWhole
<1>3. RssNameInv
  BY DEF RssInit, RssNameInv
<1> QED BY <1>1, <1>2, <1>3 DEF RssInv

\* A new run: nobody is left from the last.
LEMMA RssStartStep == RssInv /\ RssStart => RssInv'
<1> USE RssFilesAssumption DEF Files, Procs
<1> SUFFICES ASSUME RssInv, RssStart PROVE RssInv'
  OBVIOUS
<1>1. RssTypeInv' /\ RssLineInv' /\ RssAtInv'
  BY DEF RssInv, RssTypeInv, RssLabels, RssStart, RssLineInv, RssAtInv
<1>2. RssNameInv'
  BY DEF RssInv, RssStart, RssNameInv
<1>3. UrlKept'
  BY DEF RssInv, RssStart, AllOver, Over, UrlKept
<1>4. FirstFileWhole'
  BY DEF RssStart, FirstFileWhole
<1> QED BY <1>1, <1>2, <1>3, <1>4 DEF RssInv

LEMMA RssSameNames ==
  ASSUME RssNameInv, UNCHANGED rssAt, \A q \in Procs : rssPc'[q] = "none" <=> rssPc[q] = "none"
  PROVE  RssNameInv'
<1>1. ASSUME NEW q \in Procs, NEW f \in Files PROVE q \cup {f} \in Procs
  BY DEF Procs
<1> QED BY <1>1 DEF RssNameInv

\* A process moves to another label and nothing else that the invariant reads
\* changes, except that it may leave "write" by dying.
LEMMA RssMoveStep ==
  ASSUME RssInv, NEW p \in Procs, NEW to \in RssLabels \ {"none"},
         rssPc[p] # "none",
         rssPc' = [rssPc EXCEPT ![p] = to],
         UNCHANGED <<rssUrl, rssAt, rssLine>>,
         to \in {"fetch", "receive", "rewrite"} => rssAt[p] \in p,
         to \in {"receive", "rewrite"} => rssLine[p] = "url",
         to \notin {"read", "write"},
         rssCut \subseteq rssCut',
         rssPc[p] = "write" => rssAt[p] \in rssCut'
  PROVE  RssInv'
<1>1. RssTypeInv'
  BY DEF RssInv, RssTypeInv
<1>2. RssLineInv' /\ RssAtInv'
  BY DEF RssInv, RssTypeInv, RssLineInv, RssAtInv
<1>3. RssNameInv'
  <2>1. \A q \in Procs : rssPc'[q] = "none" <=> rssPc[q] = "none"
    BY DEF RssInv, RssTypeInv
  <2> QED BY <2>1, RssSameNames DEF RssInv
<1>4. UrlKept'
  <2> SUFFICES ASSUME NEW f \in Files, rssUrl'[f] = "empty"
               PROVE  f \in rssCut' \/ \E q \in Procs : rssPc'[q] = "write" /\ rssAt'[q] = f
    BY DEF UrlKept
  <2>1. CASE f \in rssCut
    BY <2>1
  <2>2. ASSUME NEW q \in Procs, rssPc[q] = "write", rssAt[q] = f
        PROVE  f \in rssCut' \/ (rssPc'[q] = "write" /\ rssAt'[q] = f)
    BY <2>2 DEF RssInv, RssTypeInv
  <2> QED BY <2>1, <2>2 DEF RssInv, UrlKept
<1>5. FirstFileWhole'
  BY DEF RssInv, FirstFileWhole
<1> QED BY <1>1, <1>2, <1>3, <1>4, <1>5 DEF RssInv

\* The child of a fork is a process that was not there: no writer is replaced.
LEMMA RssForkStep == ASSUME RssInv, NEW p \in Procs, Fork(p) PROVE RssInv'
<1> USE RssFilesAssumption
<1> DEFINE f == rssAt[p] + 1
           child == p \cup {f}
<1>1. f \in Files /\ child \in Procs /\ f \in Nat /\ rssAt[p] \in Nat /\ rssPc[p] = "loop"
  <2>1. rssAt[p] \in 0..RssFiles
    BY DEF RssInv, RssTypeInv
  <2>2. rssAt[p] < RssFiles /\ rssPc[p] = "loop"
    BY DEF Fork, MoreFiles
  <2>3. f \in Files /\ f \in Nat /\ rssAt[p] \in Nat
    BY <2>1, <2>2 DEF Files
  <2> HIDE DEF f
  <2> QED BY <2>2, <2>3, p \in SUBSET Files DEF Procs
<1>2. \A g \in p : g < f /\ g \in Nat
  BY <1>1 DEF RssInv, RssNameInv, Files, Procs
<1>3. rssPc[child] = "none" /\ rssAt[child] = 0 /\ child # p
  <2>1. ~(f <= rssAt[p])
    BY <1>1
  <2>2. rssPc[child] = "none"
    BY <1>1, <1>2, <2>1 DEF RssInv, RssNameInv
  <2> QED BY <1>1, <2>2 DEF RssInv, RssNameInv
<1>4. /\ rssPc' = [rssPc EXCEPT ![child] = "read"]
      /\ rssAt' = [rssAt EXCEPT ![p] = f, ![child] = f]
      /\ UNCHANGED <<rssUrl, rssLine, rssCut>>
  BY DEF Fork
<1> HIDE DEF f
<1>5. f \in 0..RssFiles
  BY <1>1 DEF Files
<1>6. RssTypeInv'
  <2> HIDE DEF child
  <2>1. rssPc' \in [Procs -> RssLabels]
    BY <1>1, <1>4 DEF RssInv, RssTypeInv, RssLabels
  <2>2. rssAt' \in [Procs -> 0..RssFiles]
    BY <1>1, <1>4, <1>5 DEF RssInv, RssTypeInv
  <2> QED BY <1>4, <2>1, <2>2 DEF RssInv, RssTypeInv
<1>7. \A q \in Procs : /\ rssPc'[q] = IF q = child THEN "read" ELSE rssPc[q]
                       /\ rssAt'[q] = IF q \in {p, child} THEN f ELSE rssAt[q]
  <2> HIDE DEF child
  <2> QED BY <1>1, <1>4 DEF RssInv, RssTypeInv
<1>8. rssUrl' = rssUrl /\ rssLine' = rssLine /\ rssCut' = rssCut
  BY <1>4
<1>9. RssLineInv' /\ RssAtInv' /\ UrlKept' /\ FirstFileWhole'
  <2> HIDE DEF child
  <2>1. \A q \in Procs : rssPc[q] = "write" => rssPc'[q] = "write" /\ rssAt'[q] = rssAt[q]
    BY <1>1, <1>3, <1>7
  <2>2. \A q \in Procs : rssPc'[q] \in {"receive", "rewrite", "write"} => rssPc[q] = rssPc'[q]
    BY <1>7
  <2>3. ASSUME NEW q \in Procs, rssPc'[q] \in {"read", "fetch", "receive", "rewrite", "write"}
        PROVE  rssAt'[q] \in q
    <3>1. CASE q = child
      BY <1>7, <3>1 DEF child
    <3>2. CASE q # child
      BY <1>1, <1>7, <2>3, <3>2 DEF RssInv, RssAtInv
    <3> QED BY <3>1, <3>2
  <2>4. RssLineInv'
    BY <1>8, <2>2 DEF RssInv, RssLineInv
  <2>5. UrlKept'
    BY <1>8, <2>1 DEF RssInv, UrlKept
  <2>6. FirstFileWhole'
    BY <1>8 DEF RssInv, FirstFileWhole
  <2> QED BY <2>3, <2>4, <2>5, <2>6 DEF RssAtInv
<1>10. RssNameInv'
  <2>1. ASSUME NEW q \in Procs, rssPc'[q] # "none", NEW g \in q PROVE g <= rssAt'[q]
    <3>1. CASE q \in {p, child}
      BY <1>1, <1>2, <1>7, <2>1, <3>1
    <3>2. CASE q \notin {p, child}
      BY <1>7, <2>1, <3>2 DEF RssInv, RssNameInv
    <3> QED BY <3>1, <3>2
  <2>2. ASSUME NEW q \in Procs, rssPc'[q] = "none" PROVE rssAt'[q] = 0
    <3>1. q # child /\ q # p
      BY <1>1, <1>3, <1>7, <2>2
    <3> QED BY <1>7, <2>2, <3>1 DEF RssInv, RssNameInv
  <2>3. ASSUME NEW q \in Procs, NEW h \in Files, \A g \in q : g < h, rssPc'[q \cup {h}] # "none"
        PROVE  h <= rssAt'[q]
    <3>1. q \cup {h} \in Procs /\ h \in Nat /\ \A g \in q : g \in Nat
      BY DEF Files, Procs
    <3>2. CASE q \cup {h} = child
      <4>1. h = f
        <5>1. h \in child /\ f \in q \cup {h}
          BY <3>2
        <5>2. h \in p => h < f
          BY <1>2
        <5>3. f \in q => f < h
          BY <2>3
        <5> QED BY <1>1, <3>1, <5>1, <5>2, <5>3
      <4>2. h \notin q /\ f \notin p
        BY <1>1, <1>2, <2>3, <3>1
      <4>3. q = p
        BY <3>2, <4>1, <4>2
      <4> QED BY <1>1, <1>7, <4>1, <4>3
    <3>3. CASE q \cup {h} # child
      <4>1. rssPc[q \cup {h}] # "none"
        BY <1>7, <2>3, <3>1, <3>3
      <4>2. h <= rssAt[q]
        BY <2>3, <4>1 DEF RssInv, RssNameInv
      <4>3. q # child
        BY <1>3, <3>1, <4>2 DEF Files
      <4>4. CASE q = p
        <5>1. rssAt'[q] = f /\ rssAt[q] = rssAt[p]
          BY <1>7, <4>4
        <5>2. f = rssAt[p] + 1
          BY DEF f
        <5> QED BY <1>1, <3>1, <4>2, <5>1, <5>2
      <4>5. CASE q # p
        BY <1>7, <4>2, <4>3, <4>5
      <4> QED BY <4>4, <4>5
    <3> QED BY <3>2, <3>3
  <2> QED BY <2>1, <2>2, <2>3 DEF RssNameInv
<1> QED BY <1>6, <1>9, <1>10 DEF RssInv

\* fopen(.., "wb+"): the process that empties a file is the one to write it.
LEMMA RssRewriteStep == ASSUME RssInv, NEW p \in Procs, Rewrite(p) PROVE RssInv'
<1>1. /\ rssPc[p] = "rewrite" /\ rssPc' = [rssPc EXCEPT ![p] = "write"]
      /\ rssUrl' = [rssUrl EXCEPT ![rssAt[p]] = "empty"]
      /\ UNCHANGED <<rssAt, rssLine, rssCut>>
  BY DEF Rewrite, RssGoto
<1>2. rssAt[p] \in Files
  BY <1>1 DEF RssInv, RssAtInv, Procs
<1>3. RssTypeInv' /\ RssLineInv' /\ RssAtInv'
  BY <1>1, <1>2 DEF RssInv, RssTypeInv, RssLineInv, RssAtInv, RssLabels
<1>4. RssNameInv'
  BY <1>1, RssSameNames DEF RssInv, RssTypeInv
<1>5. \A q \in Procs : q = p \/ rssPc[q] = "write" => rssPc'[q] = "write" /\ rssAt'[q] = rssAt[q]
  BY <1>1 DEF RssInv, RssTypeInv
<1>6. \A f \in Files : f # rssAt[p] => rssUrl'[f] = rssUrl[f]
  BY <1>1, <1>2 DEF RssInv, RssTypeInv
<1>7. UrlKept'
  BY <1>1, <1>5, <1>6 DEF RssInv, UrlKept
<1>8. FirstFileWhole'
  BY <1>1 DEF RssInv, FirstFileWhole
<1> QED BY <1>3, <1>4, <1>7, <1>8 DEF RssInv

\* The write: the file has its URL again, whoever else is at it.
LEMMA RssWriteStep == ASSUME RssInv, NEW p \in Procs, WriteUrl(p) PROVE RssInv'
<1>1. PICK to \in {"items", "loop"} :
        /\ rssPc[p] = "write" /\ rssPc' = [rssPc EXCEPT ![p] = to]
        /\ rssUrl' = [rssUrl EXCEPT ![rssAt[p]] = rssLine[p]]
        /\ UNCHANGED <<rssAt, rssLine, rssCut>>
  BY DEF WriteUrl, RssGoto
<1>2. rssAt[p] \in Files /\ rssLine[p] = "url"
  BY <1>1 DEF RssInv, RssAtInv, RssLineInv, Procs
<1>3. RssTypeInv' /\ RssLineInv' /\ RssAtInv'
  BY <1>1, <1>2 DEF RssInv, RssTypeInv, RssLineInv, RssAtInv, RssLabels
<1>4. RssNameInv'
  BY <1>1, RssSameNames DEF RssInv, RssTypeInv
<1>5. \A f \in Files : rssUrl'[f] = IF f = rssAt[p] THEN "url" ELSE rssUrl[f]
  BY <1>1, <1>2 DEF RssInv, RssTypeInv
<1>6. \A q \in Procs : rssPc[q] = "write" /\ q # p => rssPc'[q] = "write" /\ rssAt'[q] = rssAt[q]
  BY <1>1 DEF RssInv, RssTypeInv
<1>7. UrlKept'
  BY <1>1, <1>5, <1>6 DEF RssInv, UrlKept
<1>8. FirstFileWhole'
  BY <1>1 DEF RssInv, FirstFileWhole
<1> QED BY <1>3, <1>4, <1>7, <1>8 DEF RssInv

\* The first line is read, also by a process whose file another has emptied.
LEMMA RssReadStep == ASSUME RssInv, NEW p \in Procs, ReadUrl(p) PROVE RssInv'
<1>1. /\ rssPc[p] = "read" /\ rssPc' = [rssPc EXCEPT ![p] = "fetch"]
      /\ rssLine' = [rssLine EXCEPT ![p] = rssUrl[rssAt[p]]]
      /\ UNCHANGED <<rssUrl, rssAt, rssCut>>
  BY DEF ReadUrl, RssGoto
<1>2. rssUrl[rssAt[p]] \in {"url", "empty"}
  BY <1>1 DEF RssInv, RssAtInv, RssTypeInv, Procs
<1>3. RssTypeInv' /\ RssLineInv' /\ RssAtInv'
  BY <1>1, <1>2 DEF RssInv, RssTypeInv, RssLineInv, RssAtInv, RssLabels
<1>4. RssNameInv'
  BY <1>1, RssSameNames DEF RssInv, RssTypeInv
<1>5. UrlKept'
  BY <1>1 DEF RssInv, RssTypeInv, UrlKept
<1>6. FirstFileWhole'
  <2> SUFFICES ASSUME p = {1}, rssUrl[1] = "empty" PROVE 1 \in rssCut
    BY <1>1 DEF RssInv, RssTypeInv, FirstFileWhole, RssAtInv
  <2>1. 1 \in Files
    BY DEF Procs
  \* a writer of the first file would have to be this process, and it reads
  <2>2. ASSUME NEW q \in Procs, rssPc[q] = "write", rssAt[q] = 1 PROVE FALSE
    <3>1. 1 \in q /\ \A g \in q : g <= 1 /\ g \in Files
      BY <2>2 DEF RssInv, RssAtInv, RssNameInv, Procs
    <3>2. \A g \in q : g = 1
      BY <3>1, RssFilesAssumption DEF Files
    <3>3. q = {1}
      BY <3>1, <3>2
    <3> QED BY <1>1, <2>2, <3>3
  <2> QED BY <2>1, <2>2 DEF RssInv, UrlKept
<1> QED BY <1>3, <1>4, <1>5, <1>6 DEF RssInv

LEMMA RssStepInv == RssInv /\ [RssNext]_rssVars => RssInv'
<1> SUFFICES ASSUME RssInv, [RssNext]_rssVars PROVE RssInv'
  OBVIOUS
<1>1. CASE UNCHANGED rssVars
  BY <1>1 DEF rssVars, RssInv, RssTypeInv, RssLineInv, RssAtInv, RssNameInv, UrlKept, FirstFileWhole
<1>2. ASSUME NEW p \in Procs, Opendir(p) \/ ForkFails(p) \/ RssEnd(p) \/ WriteItems(p) PROVE RssInv'
  BY <1>2, RssMoveStep DEF Opendir, ForkFails, RssEnd, WriteItems, RssGoto, RssLabels
<1>3. ASSUME NEW p \in Procs, Fetch(p) PROVE RssInv'
  <2>1. rssPc[p] = "fetch" /\ rssAt[p] \in p
    BY <1>3 DEF Fetch, RssGoto, RssInv, RssAtInv
  <2>2. PICK to \in {"receive", "rewrite", "died"} : /\ rssPc' = [rssPc EXCEPT ![p] = to]
                                                     /\ to # "died" => rssLine[p] = "url"
    BY <1>3 DEF Fetch, RssGoto
  <2> QED BY <1>3, <2>1, <2>2, RssMoveStep DEF Fetch, RssLabels
<1>5. ASSUME NEW p \in Procs, Receive(p) PROVE RssInv'
  <2>1. rssPc[p] = "receive" /\ rssAt[p] \in p /\ rssLine[p] = "url"
    BY <1>5 DEF Receive, RssGoto, RssInv, RssAtInv, RssLineInv
  <2>2. PICK to \in {"rewrite", "died"} : rssPc' = [rssPc EXCEPT ![p] = to]
    BY <1>5 DEF Receive, RssGoto
  <2> QED BY <1>5, <2>1, <2>2, RssMoveStep DEF Receive, RssLabels
<1>4. ASSUME NEW p \in Procs, Dies(p) PROVE RssInv'
  <2>1. rssPc[p] # "none" /\ rssPc' = [rssPc EXCEPT ![p] = "died"]
    BY <1>4 DEF Dies, Over
  <2>2. rssCut \subseteq rssCut' /\ (rssPc[p] = "write" => rssAt[p] \in rssCut')
    BY <1>4 DEF Dies
  <2> QED BY <1>4, <2>1, <2>2, RssMoveStep DEF Dies, RssLabels
<1> QED BY <1>1, <1>2, <1>3, <1>4, <1>5, RssStartStep, RssForkStep, RssRewriteStep, RssWriteStep, RssReadStep
        DEF RssNext, RssWork

\* get_rss.c 87-97 and 181-203: whatever the forks and their interleaving, and
\* for any number of files, a file is without its URL only while a process is
\* about to write it or because one died there, and the first file, which has
\* one process in a run, is never read empty unless one died there.
THEOREM FeedsSound == RssSpec => []RssSound
<1>1. RssInv => RssSound
  BY DEF RssInv, RssSound
<1> QED BY RssInitInv, RssStepInv, <1>1, PTL DEF RssSpec
============================================================================
