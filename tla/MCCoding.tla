------------------------------ MODULE MCCoding ------------------------------
(***************************************************************************)
(* The small programs of static/coding for TLC.  They share no state, so a *)
(* behaviour moves one of them, chosen at the start, and leaves the others *)
(* as they are: every behaviour of every program is checked, and the       *)
(* product of the programs, which would show nothing more, is not built.   *)
(***************************************************************************)
EXTENDS XKeyDev, SemPair, MyTasklet, MyTimer, CatSyscall, GetRss, MyDaemon, Spix, XAdDev, LedProc, Bmp,
        XNetLoad

VARIABLE at   \* the program that moves

vars == <<at, keyVars, semVars, letVars, tmVars, catVars, rssVars, daeVars, spVars, adVars, ledVars, bmpVars, ldVars>>

Init ==
  /\ at \in {"key", "sem", "let", "timer", "cat", "rss", "daemon", "spix", "ad", "led", "bmp", "load"}
  /\ KeyInit /\ SemInit /\ LetInit /\ TmInit /\ CatInit /\ RssInit
  /\ DaeInit /\ SpInit /\ AdInit /\ LedInit /\ BmpInit /\ LdInit
  \* where a program has several initial states, one will do while others move
  /\ at # "rss" => rssDir = "there"
  /\ at # "ad" => ~adFlag
  /\ at # "bmp" => ImgWidth = 0 /\ ImgHeight = 0

\* The other programs stand.
only_key == at = "key" /\ UNCHANGED <<at, semVars, letVars, tmVars, catVars, rssVars, daeVars, spVars, adVars, ledVars, bmpVars, ldVars>>
only_sem == at = "sem" /\ UNCHANGED <<at, keyVars, letVars, tmVars, catVars, rssVars, daeVars, spVars, adVars, ledVars, bmpVars, ldVars>>
only_let == at = "let" /\ UNCHANGED <<at, keyVars, semVars, tmVars, catVars, rssVars, daeVars, spVars, adVars, ledVars, bmpVars, ldVars>>
only_timer == at = "timer" /\ UNCHANGED <<at, keyVars, semVars, letVars, catVars, rssVars, daeVars, spVars, adVars, ledVars, bmpVars, ldVars>>
only_cat == at = "cat" /\ UNCHANGED <<at, keyVars, semVars, letVars, tmVars, rssVars, daeVars, spVars, adVars, ledVars, bmpVars, ldVars>>
only_rss == at = "rss" /\ UNCHANGED <<at, keyVars, semVars, letVars, tmVars, catVars, daeVars, spVars, adVars, ledVars, bmpVars, ldVars>>
only_daemon == at = "daemon" /\ UNCHANGED <<at, keyVars, semVars, letVars, tmVars, catVars, rssVars, spVars, adVars, ledVars, bmpVars, ldVars>>
only_spix == at = "spix" /\ UNCHANGED <<at, keyVars, semVars, letVars, tmVars, catVars, rssVars, daeVars, adVars, ledVars, bmpVars, ldVars>>
only_ad == at = "ad" /\ UNCHANGED <<at, keyVars, semVars, letVars, tmVars, catVars, rssVars, daeVars, spVars, ledVars, bmpVars, ldVars>>
only_led == at = "led" /\ UNCHANGED <<at, keyVars, semVars, letVars, tmVars, catVars, rssVars, daeVars, spVars, adVars, bmpVars, ldVars>>
only_bmp == at = "bmp" /\ UNCHANGED <<at, keyVars, semVars, letVars, tmVars, catVars, rssVars, daeVars, spVars, adVars, ledVars, ldVars>>
only_load == at = "load" /\ UNCHANGED <<at, keyVars, semVars, letVars, tmVars, catVars, rssVars, daeVars, spVars, adVars, ledVars, bmpVars>>

Next ==
  \/ KeyNext /\ only_key
  \/ SemNext /\ only_sem
  \/ LetNext /\ only_let
  \/ TmNext /\ only_timer
  \/ CatNext /\ only_cat
  \/ RssNext /\ only_rss
  \/ DaeNext /\ only_daemon
  \/ SpNext /\ only_spix
  \/ AdNext /\ only_ad
  \/ LedNext /\ only_led
  \/ BmpNext /\ only_bmp
  \/ LdNext /\ only_load

\* Threads that were created, reads and transfers under way and processes of the feed
\* fetcher that need no server go on; nothing else has to happen.
Fairness ==
  /\ \A t \in Threads : WF_vars(SemStep(t) /\ only_sem)
  /\ \A f \in KeyFiles : WF_vars(ReadStep(f) /\ only_key)
  /\ \A p \in Procs : WF_vars(RssWork(p) /\ only_rss)
  /\ \A c \in SpCallers : WF_vars(Send(c) /\ only_spix)

Spec == Init /\ [][Next]_vars /\ Fairness

\* Every variable of every program keeps its type: counts and positions stay
\* within the bounds of the machine's objects they count.
CodingTypeOK ==
  /\ KeyTypeOK /\ SemTypeOK /\ LetTypeOK /\ TmTypeOK /\ CatTypeOK /\ RssTypeOK
  /\ DaeTypeOK /\ SpTypeOK /\ AdTypeOK /\ LedTypeOK /\ BmpTypeOK
  /\ LdTypeOK

\* What is begun ends: both threads, when both were created; every process of the feed
\* fetcher that no server keeps waiting; the wait of a reader for a key; and a byte
\* given to the SPI driver is sent or given up.  (A read of the timer may never end:
\* SleeperReturns of MyTimer.)
ProgramsEnd == BothEnd /\ RssEnds /\ KeyTaken /\ ByteEnds
=============================================================================
