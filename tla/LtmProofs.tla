------------------------------ MODULE LtmProofs ------------------------------
(***************************************************************************)
(* Proofs about Ltm, for any number of packages, of any lengths, and any    *)
(* sizes of a piece and of the receive buffer.                              *)
(***************************************************************************)
EXTENDS Ltm, SequenceTheorems, TLAPS

(* Before anything is unpacked.                                             *)
Fetching == {"wget", "head", "get", "verify"}

FetchInv ==
    /\ pc \in {"down", "sleep"} \cup Fetching => nfile = 1 /\ ~res
    /\ pc \in {"down", "sleep", "wget", "head"} => cur_pos = 0
    /\ pc \in Fetching => ipk \in Packages

(* What has been unpacked is the package of the cycle; it is run when all   *)
(* of it has been, and recorded when it has been run.                       *)
InstallInv ==
    /\ pc = "unpack" =>
        /\ ipk \in Packages /\ save = Whole(ipk) /\ ~res
        /\ \A i \in 1 .. nfile - 1 : dir[Files[i]] = ipk
    /\ pc = "script" /\ res => ipk \in Packages /\ \A n \in Names : dir[n] = ipk
    /\ pc = "clean" /\ res => ipk \in done
    /\ pc \in {"record", "write"} => ipk \in done

IInv == TypeOK /\ FetchInv /\ InstallInv /\ RecordedWasInstalled

-----------------------------------------------------------------------------
(* The two files of a package.                                              *)
LEMMA FileFacts ==
    /\ Len(Files) = 2 /\ Files[1] = "plug.inst" /\ Files[2] = "tqos"
    /\ \A i \in 1 .. Len(Files) : Files[i] \in Names
    /\ \A n \in Names : n = Files[1] \/ n = Files[2]
    /\ Files[1] # Files[2]
BY DEF Files, Names

(* The bytes of a package say which package it is, since it has some.       *)
LEMMA WholeFacts ==
    ASSUME NEW p \in Packages
    PROVE  /\ Size[p] \in Nat \ {0}
           /\ Whole(p) \in Seq(Bytes) /\ Len(Whole(p)) = Size[p]
           /\ \A q \in Packages : Whole(q) = Whole(p) => q = p
<1>1. \A q \in Packages : Size[q] \in Nat \ {0}
    BY LtmAssumption
<1>2. Whole(p) \in [1 .. Size[p] -> Bytes]
    BY <1>1 DEF Whole, Bytes
<1>3. Whole(p) \in Seq(Bytes) /\ Len(Whole(p)) = Size[p]
    BY <1>1, <1>2, SeqDef
<1>4. \A q \in Packages : Whole(q)[1] = <<q, 1>>
    BY <1>1 DEF Whole
<1> QED BY <1>1, <1>3, <1>4

(* A file with the right digest unpacks to the package.                     *)
LEMMA ContentIsPackage ==
    ASSUME ipk \in Packages, save = Whole(ipk)
    PROVE  Content = ipk
<1>1. \E p \in Packages : save = Whole(p)
    OBVIOUS
<1>2. \A p \in Packages : save = Whole(p) => p = ipk
    BY WholeFacts
<1> QED BY <1>1, <1>2 DEF Content

LEMMA PackagesArePositive ==
    /\ 1 \in Packages
    /\ \A p \in Packages : p \in Nat /\ p # NoPackage /\ p # NoFile /\ p # Part
BY LtmAssumption DEF Packages, NoPackage, NoFile, Part

(* A piece ends within the file, and not before it begins.                  *)
LEMMA DataEndFacts ==
    ASSUME TypeOK
    PROVE  DataEnd \in cur_pos .. flen
BY LtmAssumption, SMT DEF TypeOK, DataEnd

LEMMA GogogoTyped ==
    ASSUME TypeOK, NEW r \in Gogogo
    PROVE  r \in [data : Seq(Bytes), clen : Nat]
<1> DEFINE all == Whole(published)
           junk == [i \in 1 .. Len(resp.data) |-> <<NoPackage, 0>>]
<1>1. all \in Seq(Bytes) /\ Len(all) \in Nat
    BY WholeFacts DEF TypeOK
<1>2. \A n \in 0 .. Len(all) : SubSeq(all, 1, n) \in Seq(Bytes)
  <2> TAKE n \in 0 .. Len(all)
  <2>1. \A i \in 1 .. n : all[i] \in Bytes
      BY <1>1, ElementOfSeq
  <2> QED BY <1>1, <2>1, SubSeqProperties
<1>3. junk \in Seq(Bytes)
  <2>1. Len(resp.data) \in Nat
      BY DEF TypeOK
  <2>2. junk \in [1 .. Len(resp.data) -> Bytes]
      BY DEF Bytes
  <2> QED BY <2>1, <2>2, SeqDef
<1>4. DataEnd - cur_pos + 1 \in Nat
    BY DataEndFacts, SMT DEF TypeOK
<1>5. CASE r = resp
    BY <1>5 DEF TypeOK
<1>6. CASE \E n \in 0 .. Len(all) : r = [data |-> SubSeq(all, 1, n), clen |-> Len(all)]
    BY <1>1, <1>2, <1>6
<1>7. CASE \E n \in {0, DataEnd - cur_pos + 1} : r = [data |-> junk, clen |-> n]
    BY <1>3, <1>4, <1>7
<1> QED BY <1>5, <1>6, <1>7 DEF Gogogo

-----------------------------------------------------------------------------
LEMMA InitHolds == Init => IInv
<1> SUFFICES ASSUME Init PROVE IInv
    OBVIOUS
<1>1. <<>> \in Seq(Bytes) /\ 1 \in 1 .. Len(Files)
    BY FileFacts
<1>2. resp \in [data : Seq(Bytes), clen : Nat]
    BY <1>1 DEF Init, NoResp
<1>3. dir \in [Names -> Packages \cup {NoFile, Part}]
    BY DEF Init
<1>4. starts \in 0 .. MaxStarts /\ cur_pos \in 0 .. flen /\ flen \in Nat
    BY LtmAssumption DEF Init
<1>5. TypeOK
    BY <1>1, <1>2, <1>3, <1>4, PackagesArePositive DEF Init, TypeOK
<1>6. FetchInv /\ InstallInv /\ RecordedWasInstalled
    BY PackagesArePositive
    DEF Init, FetchInv, InstallInv, RecordedWasInstalled, Fetching
<1> QED BY <1>5, <1>6 DEF IInv

(* The values ltm keeps in memory, at the end of a cycle or of the process. *)
Cleared ==
    /\ ipk = NoPackage /\ save = <<>> /\ flen = 0 /\ cur_pos = 0
    /\ resp = NoResp /\ nfile = 1 /\ res = FALSE

LEMMA ClearedKeeps ==
    ASSUME Cleared', pc' \in {"sleep", "down"},
           published' \in Packages, have_wget' \in BOOLEAN,
           dir' \in [Names -> Packages \cup {NoFile, Part}],
           md5' \in Packages \cup {NoFile, Part}, md5' \in Packages => md5' \in done',
           tqos' \in {"none", "run", "handler", "doomed", "stuck"},
           busy' \in BOOLEAN, starts' \in 0 .. MaxStarts,
           done' \subseteq Packages, lost' \in BOOLEAN
    PROVE  IInv'
<1>1. <<>> \in Seq(Bytes) /\ 1 \in 1 .. Len(Files)
    BY FileFacts
<1>2. /\ resp' \in [data : Seq(Bytes), clen : Nat]
      /\ save' \in Seq(Bytes) /\ nfile' \in 1 .. Len(Files)
    BY <1>1 DEF Cleared, NoResp
<1>3. flen' \in Nat /\ cur_pos' \in 0 .. flen'
    BY DEF Cleared
<1>4. ipk' \in Packages \cup {NoPackage} /\ res' \in BOOLEAN
    BY DEF Cleared
<1>5. TypeOK'
    BY <1>2, <1>3, <1>4 DEF TypeOK
<1>6. FetchInv' /\ InstallInv' /\ RecordedWasInstalled'
    BY DEF FetchInv, InstallInv, RecordedWasInstalled, Fetching, Cleared
<1> QED BY <1>5, <1>6 DEF IInv

LEMMA SleepKeeps ==
    ASSUME IInv, Sleep, UNCHANGED <<envVars, dir, md5, procVars, done>>
    PROVE  IInv'
<1>1. Cleared' /\ pc' = "sleep"
    BY DEF Sleep, Cleared
<1> QED BY <1>1, ClearedKeeps DEF IInv, TypeOK, RecordedWasInstalled, envVars, procVars

-----------------------------------------------------------------------------
(* Fetching: the record and the files stay as they are.                     *)

LEMMA FetchKeeps ==
    ASSUME IInv, NEW a, a \in {"wget", "head", "get", "verify"}, pc' = a,
           ipk' \in Packages, save' \in Seq(Bytes), flen' \in Nat,
           cur_pos' \in 0 .. flen', resp' \in [data : Seq(Bytes), clen : Nat],
           a \in {"wget", "head"} => cur_pos' = 0,
           nfile = 1, ~res,
           UNCHANGED <<envVars, nfile, res, dir, md5, procVars, done>>
    PROVE  IInv'
<1>1. TypeOK'
    BY DEF IInv, TypeOK, envVars, procVars
<1>2. FetchInv' /\ InstallInv' /\ RecordedWasInstalled'
    BY DEF IInv, FetchInv, InstallInv, RecordedWasInstalled, Fetching
<1> QED BY <1>1, <1>2 DEF IInv

LEMMA DownloadCheckKeeps == IInv /\ DownloadCheck => IInv'
<1> SUFFICES ASSUME IInv, DownloadCheck PROVE IInv'
    OBVIOUS
<1>1. pc = "sleep" /\ nfile = 1 /\ ~res /\ cur_pos = 0
    BY DEF DownloadCheck, IInv, FetchInv
<1>2. pc' \in {"wget", "head"} /\ ipk' \in Packages
    BY DEF DownloadCheck, IInv, TypeOK
<1> QED BY <1>1, <1>2, FetchKeeps DEF DownloadCheck, IInv, TypeOK, netVars

LEMMA WgetKeeps == IInv /\ Wget => IInv'
<1> SUFFICES ASSUME IInv, Wget PROVE IInv'
    OBVIOUS
<1>1. nfile = 1 /\ ~res /\ ipk \in Packages
    BY DEF Wget, IInv, FetchInv, Fetching
<1>2. save' \in Seq(Bytes)
  <2>1. published \in Packages
      BY DEF IInv, TypeOK
  <2>2. PICK n \in 0 .. Size[published] : save' = SubSeq(Whole(published), 1, n)
      BY DEF Wget
  <2>3. Whole(published) \in Seq(Bytes) /\ Len(Whole(published)) = Size[published]
      BY <2>1, WholeFacts
  <2>4. n \in Nat /\ \A i \in 1 .. n : Whole(published)[i] \in Bytes
      BY <2>1, <2>3, WholeFacts, ElementOfSeq
  <2> QED BY <2>2, <2>3, <2>4, SubSeqProperties
<1> QED BY <1>1, <1>2, FetchKeeps DEF Wget, IInv, TypeOK

LEMMA AskLengthKeeps == IInv /\ AskLength => IInv'
<1> SUFFICES ASSUME IInv, AskLength PROVE IInv'
    OBVIOUS
<1>1. nfile = 1 /\ ~res /\ ipk \in Packages /\ cur_pos = 0
    BY DEF AskLength, IInv, FetchInv, Fetching
<1>2. Size[published] \in Nat
    BY WholeFacts DEF IInv, TypeOK
<1>3. <<>> \in Seq(Bytes)
    OBVIOUS
<1>4. resp' \in [data : Seq(Bytes), clen : Nat]
    BY <1>2, <1>3 DEF AskLength
<1>5. flen' \in Nat /\ cur_pos' \in 0 .. flen'
    BY <1>1, <1>2 DEF AskLength
<1> QED BY <1>1, <1>4, <1>5, FetchKeeps DEF AskLength, IInv, TypeOK

LEMMA GetKeeps == IInv /\ Get => IInv'
<1> SUFFICES ASSUME IInv, Get PROVE IInv'
    OBVIOUS
<1>1. nfile = 1 /\ ~res /\ ipk \in Packages
    BY DEF Get, IInv, FetchInv, Fetching
<1>2. PICK r \in Gogogo :
        IF r.clen # Len(r.data)
        THEN Sleep
        ELSE /\ resp' = r
             /\ save' = save \o r.data
             /\ cur_pos' = DataEnd
             /\ pc' = IF DataEnd < flen THEN "get" ELSE "verify"
             /\ UNCHANGED <<ipk, flen, nfile, res>>
    BY DEF Get
<1>3. CASE r.clen # Len(r.data)
    BY <1>2, <1>3, SleepKeeps DEF Get
<1>4. CASE r.clen = Len(r.data)
  <2>1. r \in [data : Seq(Bytes), clen : Nat]
      BY <1>2, GogogoTyped DEF IInv
  <2>2. resp' = r /\ save' \in Seq(Bytes)
    <3>1. save \in Seq(Bytes) /\ r.data \in Seq(Bytes)
        BY <2>1 DEF IInv, TypeOK
    <3>2. save \o r.data \in Seq(Bytes)
        BY <3>1, ConcatProperties
    <3> QED BY <1>2, <1>4, <3>2
  <2>3. flen' \in Nat /\ cur_pos' \in 0 .. flen'
      BY <1>2, <1>4, DataEndFacts, SMT DEF IInv, TypeOK
  <2>4. pc' \in {"get", "verify"}
      BY <1>2, <1>4
  <2>5. ipk' \in Packages /\ UNCHANGED <<envVars, nfile, res, dir, md5, procVars, done>>
      BY <1>1, <1>2, <1>4 DEF Get
  <2> QED BY <1>1, <2>1, <2>2, <2>3, <2>4, <2>5, FetchKeeps
<1> QED BY <1>3, <1>4

LEMMA VerifyKeeps == IInv /\ Verify => IInv'
<1> SUFFICES ASSUME IInv, Verify PROVE IInv'
    OBVIOUS
<1>1. pc = "verify" /\ nfile = 1 /\ ~res /\ ipk \in Packages
    BY DEF Verify, IInv, FetchInv, Fetching
<1>2. CASE ~Verified
    BY <1>2, SleepKeeps DEF Verify
<1>3. CASE Verified
  <2>1. pc' = "unpack" /\ UNCHANGED <<envVars, ipk, netVars, nfile, res, dir, md5, procVars, done>>
      BY <1>3 DEF Verify
  <2>2. TypeOK'
      BY <2>1 DEF IInv, TypeOK, envVars, netVars, procVars
  <2>3. \A i \in 1 .. nfile' - 1 : dir'[Files[i]] = ipk'
      BY <1>1, <2>1
  <2>4. ipk' \in Packages /\ save' = Whole(ipk') /\ ~res'
      BY <1>1, <1>3, <2>1 DEF Verified, Whole, netVars
  <2>5. FetchInv' /\ InstallInv' /\ RecordedWasInstalled'
      BY <2>1, <2>3, <2>4 DEF IInv, FetchInv, InstallInv, RecordedWasInstalled, Fetching
  <2> QED BY <2>2, <2>5 DEF IInv
<1> QED BY <1>2, <1>3

-----------------------------------------------------------------------------
(* Installing.                                                              *)

LEMMA UnpackFileKeeps == IInv /\ UnpackFile => IInv'
<1> SUFFICES ASSUME IInv, UnpackFile PROVE IInv'
    OBVIOUS
<1>1. /\ pc = "unpack" /\ ipk \in Packages /\ save = Whole(ipk) /\ ~res
      /\ \A i \in 1 .. nfile - 1 : dir[Files[i]] = ipk
      /\ nfile \in 1 .. Len(Files) /\ dir \in [Names -> Packages \cup {NoFile, Part}]
    BY DEF UnpackFile, IInv, InstallInv, TypeOK
<1>2. Files[nfile] \in Names /\ dir' = [dir EXCEPT ![Files[nfile]] = ipk]
    BY <1>1, ContentIsPackage, FileFacts DEF UnpackFile
<1>3. dir' \in [Names -> Packages \cup {NoFile, Part}]
    BY <1>1, <1>2
<1>4. \A i \in 1 .. nfile : dir'[Files[i]] = ipk
  <2> TAKE i \in 1 .. nfile
  <2>1. CASE i = nfile
      BY <1>1, <1>2, <2>1
  <2>2. CASE i # nfile
    <3>1. i \in 1 .. nfile - 1 /\ Files[i] \in Names
        BY <1>1, <2>2, FileFacts
    <3> QED BY <1>1, <1>2, <3>1
  <2> QED BY <2>1, <2>2
<1>5. UNCHANGED <<envVars, ipk, netVars, md5, procVars, done>>
    BY DEF UnpackFile
<1>6. CASE nfile = Len(Files)
  <2>1. pc' = "script" /\ res' = TRUE /\ nfile' = nfile
      BY <1>6 DEF UnpackFile
  <2>2. \A n \in Names : dir'[n] = ipk
      BY <1>4, <1>6, FileFacts
  <2>3. TypeOK'
      BY <1>3, <1>5, <2>1 DEF IInv, TypeOK, envVars, netVars, procVars
  <2>4. FetchInv' /\ InstallInv' /\ RecordedWasInstalled'
      BY <1>1, <1>5, <2>1, <2>2
      DEF IInv, FetchInv, InstallInv, RecordedWasInstalled, Fetching
  <2> QED BY <2>3, <2>4 DEF IInv
<1>7. CASE nfile # Len(Files)
  <2>1. nfile' = nfile + 1 /\ pc' = "unpack" /\ res' = res
      BY <1>1, <1>7 DEF UnpackFile
  <2>2. nfile' \in 1 .. Len(Files) /\ nfile' - 1 = nfile
      BY <1>1, <1>7, <2>1, FileFacts
  <2>3. TypeOK'
      BY <1>3, <1>5, <2>1, <2>2 DEF IInv, TypeOK, envVars, netVars, procVars
  <2>4. ipk' \in Packages /\ save' = Whole(ipk') /\ ~res'
      BY <1>1, <1>5, <2>1 DEF Whole, netVars
  <2>5. \A i \in 1 .. nfile' - 1 : dir'[Files[i]] = ipk'
      BY <1>4, <1>5, <2>2
  <2>6. FetchInv' /\ InstallInv' /\ RecordedWasInstalled'
      BY <1>5, <2>1, <2>4, <2>5
      DEF IInv, FetchInv, InstallInv, RecordedWasInstalled, Fetching
  <2> QED BY <2>3, <2>6 DEF IInv
<1> QED BY <1>6, <1>7

LEMMA UnpackFailsKeeps == IInv /\ UnpackFails => IInv'
<1> SUFFICES ASSUME IInv, UnpackFails PROVE IInv'
    OBVIOUS
<1>1. pc = "unpack" /\ ~res /\ pc' = "script" /\ ~res'
    BY DEF UnpackFails, IInv, InstallInv
<1>2. dir' \in [Names -> Packages \cup {NoFile, Part}]
    BY FileFacts DEF UnpackFails, IInv, TypeOK
<1>3. TypeOK'
    BY <1>1, <1>2 DEF UnpackFails, IInv, TypeOK, envVars, netVars, procVars
<1>4. FetchInv' /\ InstallInv' /\ RecordedWasInstalled'
    BY <1>1 DEF UnpackFails, IInv, FetchInv, InstallInv, RecordedWasInstalled, Fetching
<1> QED BY <1>3, <1>4 DEF IInv

LEMMA ScriptKeeps == IInv /\ Script => IInv'
<1> SUFFICES ASSUME IInv, Script PROVE IInv'
    OBVIOUS
<1>1. /\ pc = "script" /\ pc' = "clean"
      /\ UNCHANGED <<envVars, ipk, netVars, nfile, res, dir, md5, tqos, busy, lost>>
    BY DEF Script
<1>2. starts' \in 0 .. MaxStarts
    BY LtmAssumption, SMT DEF Script, IInv, TypeOK
<1>3. done' = done \/ (ipk \in Packages /\ done' = done \cup {ipk})
  <2>1. (\A n \in Names : dir[n] = ipk) => ipk \in Packages
    <3> SUFFICES ASSUME \A n \in Names : dir[n] = ipk PROVE ipk \in Packages
        OBVIOUS
    <3>1. ipk \in Packages \cup {NoFile, Part} /\ ipk \in Packages \cup {NoPackage}
        BY DEF IInv, TypeOK, Names
    <3> QED BY <3>1 DEF NoFile, Part, NoPackage
  <2> QED BY <2>1 DEF Script
<1>4. TypeOK'
    BY <1>1, <1>2, <1>3 DEF IInv, TypeOK, envVars, netVars
<1>5. res => ipk \in done'
    BY <1>1 DEF Script, IInv, InstallInv
<1>6. FetchInv' /\ InstallInv' /\ RecordedWasInstalled'
    BY <1>1, <1>3, <1>5
    DEF IInv, FetchInv, InstallInv, RecordedWasInstalled, Fetching
<1> QED BY <1>4, <1>6 DEF IInv

LEMMA CleanKeeps == IInv /\ Clean => IInv'
<1> SUFFICES ASSUME IInv, Clean PROVE IInv'
    OBVIOUS
<1>1. /\ dir' \in [Names -> Packages \cup {NoFile, Part}] /\ busy' \in BOOLEAN
      /\ UNCHANGED <<envVars, md5, tqos, starts, lost, done>>
    BY DEF Clean
<1>2. CASE ~res
  <2>1. Cleared' /\ pc' = "sleep"
      BY <1>2 DEF Clean, Sleep, Cleared
  <2> QED BY <1>1, <2>1, ClearedKeeps DEF IInv, TypeOK, RecordedWasInstalled, envVars
<1>3. CASE res
  <2>1. pc = "clean" /\ pc' = "record" /\ UNCHANGED <<ipk, netVars, nfile, res>>
      BY <1>3 DEF Clean
  <2>2. ipk \in done
      BY <1>3, <2>1 DEF IInv, InstallInv
  <2>3. TypeOK'
      BY <1>1, <2>1 DEF IInv, TypeOK, envVars, netVars
  <2>4. FetchInv' /\ InstallInv' /\ RecordedWasInstalled'
      BY <1>1, <2>1, <2>2
      DEF IInv, FetchInv, InstallInv, RecordedWasInstalled, Fetching
  <2> QED BY <2>3, <2>4 DEF IInv
<1> QED BY <1>2, <1>3

LEMMA SetMd5OpenKeeps == IInv /\ SetMd5Open => IInv'
<1> SUFFICES ASSUME IInv, SetMd5Open PROVE IInv'
    OBVIOUS
<1>1. TypeOK'
    BY DEF SetMd5Open, IInv, TypeOK, envVars, netVars, procVars
<1>2. FetchInv' /\ InstallInv' /\ RecordedWasInstalled'
    BY PackagesArePositive DEF SetMd5Open, IInv, FetchInv, InstallInv, RecordedWasInstalled, Fetching
<1> QED BY <1>1, <1>2 DEF IInv

LEMMA SetMd5WriteKeeps == IInv /\ SetMd5Write => IInv'
<1> SUFFICES ASSUME IInv, SetMd5Write PROVE IInv'
    OBVIOUS
<1>1. md5' \in Packages /\ md5' \in done' /\ UNCHANGED <<envVars, dir, procVars, done>>
    BY DEF SetMd5Write, IInv, InstallInv, TypeOK
<1>2. Cleared' /\ pc' = "sleep"
    BY DEF SetMd5Write, Sleep, Cleared
<1> QED BY <1>1, <1>2, ClearedKeeps DEF IInv, TypeOK, envVars, procVars

-----------------------------------------------------------------------------
(* Signals, crashes and the other process.                                  *)

(* Steps that leave ltm's memory and cycle alone.                           *)
LEMMA OutsideKeeps ==
    ASSUME IInv, UNCHANGED <<pc, ipk, netVars, nfile, res, dir, md5, done, have_wget>>,
           published' \in Packages,
           tqos' \in {"none", "run", "handler", "doomed", "stuck"},
           busy' \in BOOLEAN, starts' \in 0 .. MaxStarts, lost' \in BOOLEAN
    PROVE  IInv'
<1>1. TypeOK'
    BY DEF IInv, TypeOK, netVars
<1>2. FetchInv'
    BY DEF IInv, FetchInv, Fetching, netVars
<1>3. InstallInv'
  <2>1. save' = save /\ (ipk \in Packages => Whole(ipk') = Whole(ipk))
      BY DEF Whole, netVars
  <2> QED BY <2>1 DEF IInv, InstallInv
<1>4. RecordedWasInstalled'
    BY DEF IInv, RecordedWasInstalled
<1> QED BY <1>1, <1>2, <1>3, <1>4 DEF IInv

(* Steps into ltm's handler, or within it.                                  *)
LEMMA HandlerKeeps ==
    ASSUME IInv, pc' \in {"signal", "killall"},
           UNCHANGED <<envVars, ipk, netVars, nfile, res, starts, done, lost>>,
           dir' \in [Names -> Packages \cup {NoFile, Part}],
           md5' \in {md5, NoFile},
           tqos' \in {"none", "run", "handler", "doomed", "stuck"},
           busy' \in BOOLEAN
    PROVE  IInv'
<1>1. TypeOK'
    BY DEF IInv, TypeOK, envVars, netVars
<1>2. FetchInv' /\ InstallInv' /\ RecordedWasInstalled'
    BY PackagesArePositive
    DEF IInv, FetchInv, InstallInv, RecordedWasInstalled, Fetching
<1> QED BY <1>1, <1>2 DEF IInv

LEMMA InterruptedTyped ==
    ASSUME IInv, Interrupted
    PROVE  dir' \in [Names -> Packages \cup {NoFile, Part}]
BY FileFacts DEF IInv, TypeOK, Interrupted

LEMMA ExitClears == Exit => Cleared' /\ pc' = "down"
BY DEF Exit, Cleared

(* The steps of the daemon and of its environment.                          *)
LEMMA ProcessesKeep ==
    ASSUME IInv, \/ TqosStarts \/ TqosMissing \/ TqosKillall \/ SignalTqos
                 \/ KillTqos \/ Publish
    PROVE  IInv'
<1>1. CASE TqosStarts
  <2>1. starts' \in 0 .. MaxStarts
      BY <1>1, LtmAssumption, SMT DEF TqosStarts, IInv, TypeOK
  <2> QED BY <1>1, <2>1, OutsideKeeps DEF TqosStarts, IInv, TypeOK, envVars
<1>2. CASE TqosMissing
  <2>1. starts' \in 0 .. MaxStarts
      BY <1>2, LtmAssumption, SMT DEF TqosMissing, IInv, TypeOK
  <2> QED BY <1>2, <2>1, OutsideKeeps DEF TqosMissing, IInv, TypeOK, envVars
<1>3. CASE TqosKillall
  <2>1. /\ tqos' \in {"none", "stuck"} /\ busy' \in BOOLEAN
        /\ UNCHANGED <<envVars, ipk, netVars, nfile, res, md5, starts, done, lost>>
      BY <1>3 DEF TqosKillall
  <2>2. CASE pc \in {"down", "signal", "killall"}
    <3>1. pc' = pc
        BY <1>3, <2>2 DEF TqosKillall, Signalled
    <3>2. CASE pc' = "signal"
      <4>1. Interrupted
          BY <1>3, <3>2 DEF TqosKillall
      <4> QED BY <2>1, <3>2, <4>1, InterruptedTyped, HandlerKeeps
    <3>3. CASE pc' # "signal"
      <4>1. dir' = dir
          BY <1>3, <3>3 DEF TqosKillall
      <4> QED BY <2>1, <3>1, <4>1, OutsideKeeps DEF IInv, TypeOK, envVars
    <3> QED BY <3>2, <3>3
  <2>3. CASE pc \notin {"down", "signal", "killall"}
    <3>1. pc' = "signal"
        BY <1>3, <2>3 DEF TqosKillall, Signalled
    <3>2. Interrupted
        BY <1>3, <3>1 DEF TqosKillall
    <3> QED BY <2>1, <3>1, <3>2, InterruptedTyped, HandlerKeeps
  <2> QED BY <2>2, <2>3
<1>4. CASE SignalTqos
    BY <1>4, OutsideKeeps DEF SignalTqos, IInv, TypeOK, envVars
<1>5. CASE KillTqos
    BY <1>5, OutsideKeeps DEF KillTqos, IInv, TypeOK, envVars
<1>6. CASE Publish
  <2>1. published' \in Packages
      BY <1>6 DEF Publish
  <2> QED BY <1>6, <2>1, OutsideKeeps DEF Publish, IInv, TypeOK, procVars
<1> QED BY <1>1, <1>2, <1>3, <1>4, <1>5, <1>6

(* The ways ltm is interrupted.                                             *)
LEMMA InterruptsKeep ==
    ASSUME IInv, SignalLtm \/ SigRemove \/ SigKillall \/ KillLtm \/ PowerLoss
    PROVE  IInv'
<1>1. CASE SignalLtm
  <2>1. pc' = "signal" /\ Interrupted
      BY <1>1 DEF SignalLtm, Signalled
  <2> QED BY <1>1, <2>1, InterruptedTyped, HandlerKeeps
          DEF SignalLtm, IInv, TypeOK, procVars
<1>2. CASE SigRemove
    BY <1>2, HandlerKeeps DEF SigRemove, IInv, TypeOK, procVars
<1>3. CASE SigKillall
  <2>1. Cleared' /\ pc' = "down"
      BY <1>3, ExitClears DEF SigKillall
  <2>2. tqos' \in {"none", "run", "handler", "doomed", "stuck"} /\ busy' \in BOOLEAN
    <3>1. tqos' \in {"none", "run", "handler", "doomed", "stuck"}
        BY <1>3, Zenon DEF SigKillall, IInv, TypeOK
    <3>2. busy' \in BOOLEAN
        BY <1>3, Zenon DEF SigKillall
    <3> QED BY <3>1, <3>2
  <2> QED BY <1>3, <2>1, <2>2, ClearedKeeps
          DEF SigKillall, IInv, TypeOK, RecordedWasInstalled, envVars
<1>4. CASE KillLtm
  <2>1. Cleared' /\ pc' = "down"
      BY <1>4, ExitClears DEF KillLtm
  <2>2. dir' \in [Names -> Packages \cup {NoFile, Part}]
      BY <1>4, InterruptedTyped DEF KillLtm
  <2> QED BY <1>4, <2>1, <2>2, ClearedKeeps
          DEF KillLtm, IInv, TypeOK, RecordedWasInstalled, envVars
<1>5. CASE PowerLoss
  <2>1. Cleared' /\ pc' = "down"
      BY <1>5, ExitClears DEF PowerLoss
  <2>2. dir' \in [Names -> Packages \cup {NoFile, Part}] /\ starts' \in 0 .. MaxStarts
      BY <1>5, LtmAssumption DEF PowerLoss
  <2> QED BY <1>5, <2>1, <2>2, PackagesArePositive, ClearedKeeps
          DEF PowerLoss, IInv, TypeOK, envVars
<1> QED BY <1>1, <1>2, <1>3, <1>4, <1>5

LEMMA NextKeeps == IInv /\ [Next]_vars => IInv'
<1> SUFFICES ASSUME IInv, [Next]_vars PROVE IInv'
    OBVIOUS
<1>1. CASE Start
    BY <1>1, SleepKeeps DEF Start
<1>2. CASE AskLengthFails
    BY <1>2, SleepKeeps DEF AskLengthFails
<1>3. CASE UNCHANGED vars
    BY <1>3, OutsideKeeps DEF vars, envVars, procVars, IInv, TypeOK
<1> QED BY <1>1, <1>2, <1>3, DownloadCheckKeeps, WgetKeeps, AskLengthKeeps,
           GetKeeps, VerifyKeeps, UnpackFileKeeps, UnpackFailsKeeps, ScriptKeeps,
           CleanKeeps, SetMd5OpenKeeps, SetMd5WriteKeeps, ProcessesKeep,
           InterruptsKeep
        DEF Next, Cycle

LEMMA InvHolds == Spec => []IInv
<1> QED BY InitHolds, NextKeeps, PTL DEF Spec

(* Every variable of the updater keeps to its type: the position in the     *)
(* package never passes its length, whatever responses are taken for new    *)
(* ones (download_ctx_run_socket).                                          *)
THEOREM TypeCorrect == Spec => []TypeOK
<1>1. IInv => TypeOK
    BY DEF IInv
<1> QED BY <1>1, InvHolds, PTL

(* engine_start records a package only after it was unpacked whole and its  *)
(* scripts were run, for every sequence of failures and crashes.            *)
THEOREM NothingSkipped == Spec => []RecordedWasInstalled
<1>1. IInv => RecordedWasInstalled
    BY DEF IInv
<1> QED BY <1>1, InvHolds, PTL

-----------------------------------------------------------------------------
(* The record and the process.                                              *)

Process == tqos # "none" \/ starts > 0

(* An ltm that ended without a SIGKILL left no record; one that is about to *)
(* record a package has seen a tqos or left one to the background.          *)
ProcessInv ==
    /\ RecordedHasProcess
    /\ pc = "down" /\ ~lost => md5 \notin Packages
    /\ pc = "killall" => md5 \notin Packages
    /\ (pc = "clean" /\ res) \/ pc \in {"record", "write"} => lost \/ Process

(* The steps of a cycle that touch neither the record nor the processes.    *)
LEMMA CycleKeepsProcess ==
    ASSUME ProcessInv, UNCHANGED <<md5, procVars>>,
           pc \notin {"signal", "killall"},
           pc' \notin {"down", "signal", "killall", "record", "write", "clean"}
    PROVE  ProcessInv'
BY DEF ProcessInv, RecordedHasProcess, Process, procVars

LEMMA ScriptKeepsProcess ==
    ASSUME IInv, ProcessInv, Script
    PROVE  ProcessInv'
<1>1. pc = "script" /\ pc' = "clean" /\ UNCHANGED <<res, md5, tqos, lost>>
    BY DEF Script
<1>2. starts \in Nat /\ starts' >= starts
    BY LtmAssumption, SMT DEF Script, IInv, TypeOK
<1>3. res => tqos # "none" \/ starts' > 0
  <2> SUFFICES ASSUME res, tqos = "none" PROVE starts' > 0
      OBVIOUS
  <2>1. dir["plug.inst"] \in Packages
      BY <1>1 DEF IInv, InstallInv, Names
  <2>2. starts' = starts + 1
      BY <2>1 DEF Script
  <2> QED BY <1>2, <2>2
<1>4. starts' \in Nat /\ (starts > 0 => starts' > 0)
    BY <1>2, LtmAssumption, SMT DEF Script
<1>5. RecordedHasProcess'
    BY <1>1, <1>4 DEF ProcessInv, RecordedHasProcess
<1>6. pc' = "clean" /\ res' => Process'
    BY <1>1, <1>3 DEF Process
<1> QED BY <1>1, <1>5, <1>6 DEF ProcessInv

LEMMA CycleProcess ==
    ASSUME IInv, ProcessInv, Start \/ Cycle
    PROVE  ProcessInv'
<1>1. CASE Start \/ AskLengthFails
    BY <1>1 DEF Start, AskLengthFails, Sleep, ProcessInv, RecordedHasProcess,
                Process, procVars
<1>2. CASE DownloadCheck
    BY <1>2, CycleKeepsProcess DEF DownloadCheck
<1>3. CASE Wget \/ AskLength
    BY <1>3, CycleKeepsProcess DEF Wget, AskLength
<1>4. CASE Get
  <2>1. pc = "get" /\ pc' \in {"sleep", "get", "verify"}
      BY <1>4 DEF Get, Sleep
  <2> QED BY <1>4, <2>1, CycleKeepsProcess DEF Get
<1>5. CASE Verify
  <2>1. pc = "verify" /\ pc' \in {"sleep", "unpack"}
      BY <1>5 DEF Verify, Sleep
  <2> QED BY <1>5, <2>1, CycleKeepsProcess DEF Verify
<1>6. CASE UnpackFile
  <2>1. pc = "unpack" /\ pc' \in {"unpack", "script"}
      BY <1>6 DEF UnpackFile
  <2> QED BY <1>6, <2>1, CycleKeepsProcess DEF UnpackFile
<1>7. CASE UnpackFails
    BY <1>7, CycleKeepsProcess DEF UnpackFails
<1>8. CASE Script
    BY <1>8, ScriptKeepsProcess
<1>9. CASE Clean
    BY <1>9 DEF Clean, Sleep, ProcessInv, RecordedHasProcess, Process
<1>10. CASE SetMd5Open
    BY <1>10, PackagesArePositive
    DEF SetMd5Open, ProcessInv, RecordedHasProcess, Process, procVars
<1>11. CASE SetMd5Write
    BY <1>11 DEF SetMd5Write, Sleep, ProcessInv, RecordedHasProcess, Process, procVars
<1> QED BY <1>1, <1>2, <1>3, <1>4, <1>5, <1>6, <1>7, <1>8, <1>9, <1>10, <1>11 DEF Cycle

LEMMA OtherProcess ==
    ASSUME IInv, ProcessInv,
           \/ SigRemove \/ SigKillall \/ TqosStarts \/ TqosMissing \/ TqosKillall
           \/ SignalLtm \/ SignalTqos \/ KillLtm \/ KillTqos \/ PowerLoss \/ Publish
    PROVE  ProcessInv'
<1> USE DEF ProcessInv, RecordedHasProcess, Process
<1>1. CASE SigRemove
    BY <1>1, PackagesArePositive DEF SigRemove
<1>2. CASE SigKillall
    BY <1>2 DEF SigKillall, Exit
<1>3. CASE TqosStarts
  <2>1. tqos' # "none"
      BY <1>3 DEF TqosStarts
  <2> QED BY <1>3, <2>1 DEF TqosStarts
<1>4. CASE TqosMissing
    BY <1>4 DEF TqosMissing
<1>5. CASE TqosKillall
  <2>1. UNCHANGED <<md5, res, starts, lost>>
      BY <1>5 DEF TqosKillall
  <2>2. CASE pc \in {"down", "signal", "killall"}
    <3>1. pc' = pc
        BY <1>5, <2>2 DEF TqosKillall, Signalled
    <3> QED BY <2>1, <2>2, <3>1
  <2>3. CASE pc \notin {"down", "signal", "killall"}
    <3>1. pc' = "signal"
        BY <1>5, <2>3 DEF TqosKillall, Signalled
    <3> QED BY <2>1, <3>1
  <2> QED BY <2>2, <2>3
<1>6. CASE SignalLtm
  <2>1. pc' = "signal" /\ UNCHANGED <<md5, res, tqos, starts, lost>>
      BY <1>6 DEF SignalLtm, Signalled, procVars
  <2> QED BY <2>1
<1>7. CASE SignalTqos
    BY <1>7 DEF SignalTqos
<1>8. CASE KillLtm \/ KillTqos
  <2>1. lost' /\ md5' = md5
      BY <1>8 DEF KillLtm, KillTqos
  <2>2. pc' = "down" \/ pc' = pc
      BY <1>8 DEF KillLtm, KillTqos, Exit
  <2> QED BY <2>1, <2>2
<1>9. CASE PowerLoss
    BY <1>9, PackagesArePositive DEF PowerLoss, Exit
<1>10. CASE Publish
    BY <1>10 DEF Publish, procVars
<1> QED BY <1>1, <1>2, <1>3, <1>4, <1>5, <1>6, <1>7, <1>8, <1>9, <1>10

(* A recorded package has a tqos, or ltm is about to forget it, but for a   *)
(* SIGKILL or a start that came to nothing: sig_hand of ltm and sighandler  *)
(* of tqos, in whatever order their steps fall.                             *)
THEOREM RecordHasProcess == Spec => []RecordedHasProcess
<1>1. Init => ProcessInv
    BY PackagesArePositive DEF Init, ProcessInv, RecordedHasProcess, Process
<1>2. IInv /\ ProcessInv /\ [Next]_vars => ProcessInv'
  <2> SUFFICES ASSUME IInv, ProcessInv, [Next]_vars PROVE ProcessInv'
      OBVIOUS
  <2>1. CASE UNCHANGED vars
      BY <2>1 DEF vars, procVars, ProcessInv, RecordedHasProcess, Process
  <2> QED BY <2>1, CycleProcess, OtherProcess DEF Next
<1>3. ProcessInv => RecordedHasProcess
    BY DEF ProcessInv
<1> QED BY <1>1, <1>2, <1>3, InvHolds, PTL DEF Spec
=============================================================================
