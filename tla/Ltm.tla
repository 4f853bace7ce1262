--------------------------------- MODULE Ltm ---------------------------------
(***************************************************************************)
(* ltm (src/ltm), the updater that fetches, unpacks and starts tqos, and    *)
(* the way the two processes end each other. Every cycle ltm asks a server  *)
(* for the digest of the package it publishes; if it is not the digest in   *)
(* /tmp/tqos.md5 the package is fetched, with wget or through a socket,     *)
(* unpacked into /tmp/LTinst, its scripts are run, and the digest recorded. *)
(*                                                                          *)
(* A signal ends ltm through its handler, which removes the record and      *)
(* sends tqos a signal; tqos's handler does the same to ltm. SIGKILL ends   *)
(* either without that, and a loss of power empties /tmp.                   *)
(***************************************************************************)
EXTENDS Integers, Sequences

CONSTANTS
    LAST,               \* the newest package
    Size,               \* the length of each package
    PIECE,              \* DOWNLOAD_PIECE_SIZE
    RECV,               \* what fits DEF_RESP_SIZE besides the headers
    MaxStarts           \* starts of tqos pending at a time

(* What the servers publish, oldest first.                                  *)
Packages == 1 .. LAST

ASSUME LtmAssumption ==
    /\ LAST \in Nat \ {0}
    /\ DOMAIN Size = Packages /\ \A p \in Packages : Size[p] \in Nat \ {0}
    /\ PIECE \in Nat \ {0} /\ RECV \in Nat
    /\ MaxStarts \in Nat \ {0}

NoPackage == 0
NoFile == -1
Part == -2                          \* truncated, or not yet written whole

(* A package holds its files in this order (tqos-pack/pack-generate.sh).    *)
Files == <<"plug.inst", "tqos">>
Names == {"plug.inst", "tqos"}

Bytes == (Packages \cup {NoPackage}) \X Nat
Whole(p) == [i \in 1 .. Size[p] |-> <<p, i>>]

VARIABLES
    published,      \* what the servers publish
    have_wget,      \* engine_start's have_wget
    pc,             \* where ltm is
    ipk,            \* ipk.md5: the package of this cycle
    save,           \* the file the package is saved in
    flen,           \* its length, as HEAD gave it
    cur_pos,        \* how much of it has been asked for
    resp,           \* the last response the socket accepted
    nfile,          \* the file of the package being unpacked
    res,            \* tianyepiao_gogogo's res: was it unpacked?
    dir,            \* the files in /tmp/LTinst
    md5,            \* the package /tmp/tqos.md5 names
    tqos,           \* "none", "run", in its signal "handler", there with
                    \* another signal pending ("doomed"), or "stuck" after it
    busy,           \* is the binary in /tmp/LTinst the one tqos runs?
    starts,         \* how many "$PWD/tqos &" have not got to tqos yet
    done,           \* history: the packages unpacked whole and then run
    lost            \* history: a SIGKILL, or a start that found no tqos

netVars == <<save, flen, cur_pos, resp>>
procVars == <<tqos, busy, starts, lost>>
envVars == <<published, have_wget>>
vars == <<envVars, pc, ipk, netVars, nfile, res, dir, md5, procVars, done>>

NoResp == [data |-> <<>>, clen |-> 0]

Init ==
    /\ published = 1 /\ have_wget \in BOOLEAN
    /\ pc = "down" /\ ipk = NoPackage
    /\ save = <<>> /\ flen = 0 /\ cur_pos = 0 /\ resp = NoResp
    /\ nfile = 1 /\ res = FALSE
    /\ dir = [n \in Names |-> NoFile] /\ md5 = NoFile
    /\ tqos = "none" /\ busy = FALSE /\ starts = 0
    /\ done = {} /\ lost = FALSE

-----------------------------------------------------------------------------
(* The end of a cycle: engine_start clears ipk and sleeps.                  *)
Sleep ==
    /\ pc' = "sleep" /\ ipk' = NoPackage
    /\ save' = <<>> /\ flen' = 0 /\ cur_pos' = 0 /\ resp' = NoResp
    /\ nfile' = 1 /\ res' = FALSE

(* main and the head of engine_start. What an earlier ltm left in           *)
(* /tmp/LTinst stays there.                                                 *)
Start ==
    /\ pc = "down"
    /\ Sleep
    /\ UNCHANGED <<envVars, dir, md5, procVars, done>>

(* download_check, when a server answers, in time and readably, and names a *)
(* package that is not the recorded one (a record that is missing or too    *)
(* short is no record). Otherwise nothing changes until the next cycle.     *)
DownloadCheck ==
    /\ pc = "sleep"
    /\ md5 # published
    /\ ipk' = published
    /\ pc' = IF have_wget THEN "wget" ELSE "head"
    /\ UNCHANGED <<envVars, netVars, nfile, res, dir, md5, procVars, done>>

(* wget saves what is published by then, or the beginning of it.            *)
Wget ==
    /\ pc = "wget"
    /\ \E n \in 0 .. Size[published] : save' = SubSeq(Whole(published), 1, n)
    /\ pc' = "verify"
    /\ UNCHANGED <<envVars, ipk, flen, cur_pos, resp, nfile, res, dir, md5,
                   procVars, done>>

(* download_ctx_run_socket: HEAD gives the length; its answer has no body.  *)
AskLength ==
    /\ pc = "head"
    /\ flen' = Size[published]
    /\ resp' = [data |-> <<>>, clen |-> Size[published]]
    /\ pc' = "get"
    /\ UNCHANGED <<envVars, ipk, save, cur_pos, nfile, res, dir, md5,
                   procVars, done>>

(* download_ctx_run_socket: the file has been created, the length not got.  *)
AskLengthFails ==
    /\ pc = "head"
    /\ Sleep
    /\ UNCHANGED <<envVars, dir, md5, procVars, done>>

(* Mutant: the end of the last piece is not cut to the length.              *)
DataEndUncut == cur_pos + PIECE

DataEnd == IF cur_pos + PIECE > flen THEN flen ELSE cur_pos + PIECE

(* xiaocilang_gogogo. "200" and the whole file, as much of it as one recv   *)
(* returned. Any other answer ("206" and the range, whose end counts; an    *)
(* error without a body) is refused but overwrites the buffer, and "valid"  *)
(* stays set, so the old length is taken with the new text. With no         *)
(* connection, or no answer, the last response stays as it is.              *)
Gogogo ==
    LET all == Whole(published)
        junk == [i \in 1 .. Len(resp.data) |-> <<NoPackage, 0>>]
    IN  {[data |-> SubSeq(all, 1, n), clen |-> Len(all)] :
            n \in {m \in 0 .. Len(all) : m <= RECV}}
        \cup {[data |-> junk, clen |-> n] : n \in {0, DataEnd - cur_pos + 1}}
        \cup {resp}

(* download_ctx_run_socket: one round of the loop over the pieces.          *)
Get ==
    /\ pc = "get"
    /\ \E r \in Gogogo :
        IF r.clen # Len(r.data)
        THEN Sleep
        ELSE /\ resp' = r
             /\ save' = save \o r.data
             /\ cur_pos' = DataEnd
             /\ pc' = IF DataEnd < flen THEN "get" ELSE "verify"
             /\ UNCHANGED <<ipk, flen, nfile, res>>
    /\ UNCHANGED <<envVars, dir, md5, procVars, done>>

(* Mutant: only the length is compared.                                     *)
VerifiedLength == Len(save) = Size[ipk]

(* download_ctx_run: the digest of the file, which is removed if it is not  *)
(* the one the server named.                                                *)
Verified == save = Whole(ipk)

Verify ==
    /\ pc = "verify"
    /\ IF Verified
       THEN /\ pc' = "unpack"
            /\ UNCHANGED <<ipk, netVars, nfile, res>>
       ELSE Sleep
    /\ UNCHANGED <<envVars, dir, md5, procVars, done>>

-----------------------------------------------------------------------------
(* What the bytes in the file unpack to.                                    *)
Content == IF \E p \in Packages : save = Whole(p)
           THEN CHOOSE p \in Packages : save = Whole(p)
           ELSE Part

(* install_unpack_file: one file of the list. The binary of a running       *)
(* process cannot be opened for writing.                                    *)
UnpackFile ==
    /\ pc = "unpack"
    /\ ~(Files[nfile] = "tqos" /\ busy)
    /\ dir' = [dir EXCEPT ![Files[nfile]] = Content]
    /\ IF nfile = Len(Files)
       THEN pc' = "script" /\ res' = TRUE /\ UNCHANGED nfile
       ELSE nfile' = nfile + 1 /\ UNCHANGED <<pc, res>>
    /\ UNCHANGED <<envVars, ipk, netVars, md5, procVars, done>>

(* install_unpack_file: the rest is left out, for the reason above or with  *)
(* /tmp full. The scripts are run all the same.                             *)
UnpackFails ==
    /\ pc = "unpack"
    /\ dir' = IF Files[nfile] = "tqos" /\ busy THEN dir
              ELSE [dir EXCEPT ![Files[nfile]] = Part]
    /\ pc' = "script"
    /\ UNCHANGED <<envVars, ipk, netVars, nfile, res, md5, procVars, done>>

(* install_execute_shell: plug.inst leaves a tqos to the background unless  *)
(* ps shows one. A plug.inst cut short was never flushed: it is empty.      *)
Script ==
    /\ pc = "script"
    /\ LET starting == dir["plug.inst"] \in Packages /\ tqos = "none"
       IN  /\ starting => starts < MaxStarts
           /\ starts' = IF starting THEN starts + 1 ELSE starts
    /\ done' = IF \A n \in Names : dir[n] = ipk THEN done \cup {ipk} ELSE done
    /\ pc' = "clean"
    /\ UNCHANGED <<envVars, ipk, netVars, nfile, res, dir, md5, tqos, busy, lost>>

(* Mutant: the files are left where they are.                               *)
CleanLeaves ==
    /\ pc = "clean"
    /\ IF res
       THEN /\ pc' = "record"
            /\ UNCHANGED <<ipk, netVars, nfile, res>>
       ELSE Sleep
    /\ UNCHANGED <<envVars, dir, md5, procVars, done>>

(* install_execute_shell: rm -rf *, whether tqos has been started or not.   *)
Clean ==
    /\ pc = "clean"
    /\ dir' = [n \in Names |-> NoFile]
    /\ busy' = FALSE
    /\ IF res
       THEN /\ pc' = "record"
            /\ UNCHANGED <<ipk, netVars, nfile, res>>
       ELSE Sleep
    /\ UNCHANGED <<envVars, md5, tqos, starts, lost, done>>

(* download_set_md5: fopen truncates the record, fclose writes it.          *)
SetMd5Open ==
    /\ pc = "record"
    /\ md5' = Part
    /\ pc' = "write"
    /\ UNCHANGED <<envVars, ipk, netVars, nfile, res, dir, procVars, done>>

SetMd5Write ==
    /\ pc = "write"
    /\ md5' = ipk
    /\ Sleep
    /\ UNCHANGED <<envVars, dir, procVars, done>>

-----------------------------------------------------------------------------
(* The subshell plug.inst left gets to $PWD/tqos: there it is, if rm has    *)
(* not removed it. A second tqos finds the ports taken and ends, unless the *)
(* first, stuck, has closed its sockets.                                    *)
TqosStarts ==
    /\ starts > 0
    /\ dir["tqos"] \in Packages
    /\ starts' = starts - 1
    /\ IF tqos \in {"none", "stuck"}
       THEN tqos' = "run" /\ busy' = TRUE
       ELSE UNCHANGED <<tqos, busy>>
    /\ UNCHANGED <<envVars, pc, ipk, netVars, nfile, res, dir, md5, done, lost>>

(* There is none, or it ends at once (check_copyright_time).                *)
TqosMissing ==
    /\ starts > 0
    /\ starts' = starts - 1
    /\ lost' = TRUE
    /\ UNCHANGED <<envVars, pc, ipk, netVars, nfile, res, dir, md5, tqos, busy,
                   done>>

(* Mutant: the handler waits for tqos to end before it removes the record.  *)
SigWaits ==
    /\ pc = "signal"
    /\ tqos = "none"
    /\ md5' = NoFile
    /\ pc' = "killall"
    /\ UNCHANGED <<envVars, ipk, netVars, nfile, res, dir, procVars, done>>

(* Mutant: the record stays.                                                *)
SigKeeps ==
    /\ pc = "signal"
    /\ pc' = "killall"
    /\ UNCHANGED <<envVars, ipk, netVars, nfile, res, dir, md5, procVars, done>>

(* sig_hand removes the record ...                                          *)
SigRemove ==
    /\ pc = "signal"
    /\ md5' = NoFile
    /\ pc' = "killall"
    /\ UNCHANGED <<envVars, ipk, netVars, nfile, res, dir, procVars, done>>

(* What ltm keeps in memory goes with it.                                   *)
Exit == pc' = "down" /\ ipk' = NoPackage
        /\ save' = <<>> /\ flen' = 0 /\ cur_pos' = 0 /\ resp' = NoResp
        /\ nfile' = 1 /\ res' = FALSE

(* ... and sends tqos SIGTERM: its handler runs, or, the second time, finds *)
(* no descriptors and faults.                                               *)
SigKillall ==
    /\ pc = "killall"
    /\ tqos' = CASE tqos = "run" -> "handler"
                 [] tqos = "handler" -> "doomed"
                 [] tqos = "stuck" -> "none"
                 [] OTHER -> tqos
    /\ busy' = (busy /\ tqos' # "none")
    /\ Exit
    /\ UNCHANGED <<envVars, dir, md5, starts, done, lost>>

(* The file that is being unpacked may be left truncated.                   *)
Interrupted ==
    \/ UNCHANGED dir
    \/ /\ pc = "unpack"
       /\ ~(Files[nfile] = "tqos" /\ busy)
       /\ dir' = [dir EXCEPT ![Files[nfile]] = Part]

Signalled == pc' = IF pc \in {"down", "signal", "killall"} THEN pc ELSE "signal"

(* SIGTERM, SIGINT or SIGSEGV, at any point of ltm's cycle.                 *)
SignalLtm ==
    /\ pc \notin {"down", "signal", "killall"}
    /\ Signalled
    /\ Interrupted
    /\ UNCHANGED <<envVars, ipk, netVars, nfile, res, md5, procVars, done>>

SignalTqos ==
    /\ tqos = "run"
    /\ tqos' = "handler"
    /\ UNCHANGED <<envVars, pc, ipk, netVars, nfile, res, dir, md5, busy, starts,
                   done, lost>>

(* The end of tqos's sighandler: killall ltm. The process ends when it      *)
(* returns, or hangs in epoll_wait if it had interrupted a timer.           *)
TqosKillall ==
    /\ tqos \in {"handler", "doomed"}
    /\ Signalled
    /\ IF pc' = "signal" THEN Interrupted ELSE UNCHANGED dir
    /\ tqos' \in IF tqos = "handler" THEN {"none", "stuck"} ELSE {"none"}
    /\ busy' = (busy /\ tqos' # "none")
    /\ UNCHANGED <<envVars, ipk, netVars, nfile, res, md5, starts, done, lost>>

(* SIGKILL, which the call to signal() for it does not change.              *)
KillLtm ==
    /\ pc # "down"
    /\ Interrupted
    /\ lost' = TRUE
    /\ Exit
    /\ UNCHANGED <<envVars, md5, tqos, busy, starts, done>>

KillTqos ==
    /\ tqos # "none"
    /\ tqos' = "none" /\ busy' = FALSE
    /\ lost' = TRUE
    /\ UNCHANGED <<envVars, pc, ipk, netVars, nfile, res, dir, md5, starts, done>>

(* /tmp is in memory.                                                       *)
PowerLoss ==
    /\ Exit
    /\ dir' = [n \in Names |-> NoFile] /\ md5' = NoFile
    /\ tqos' = "none" /\ busy' = FALSE /\ starts' = 0
    /\ done' = {} /\ lost' = FALSE
    /\ UNCHANGED envVars

Publish ==
    /\ published + 1 \in Packages
    /\ published' = published + 1
    /\ UNCHANGED <<have_wget, pc, ipk, netVars, nfile, res, dir, md5, procVars, done>>

-----------------------------------------------------------------------------
Cycle ==
    \/ DownloadCheck \/ Wget \/ AskLength \/ AskLengthFails \/ Get \/ Verify
    \/ UnpackFile \/ UnpackFails \/ Script \/ Clean \/ SetMd5Open \/ SetMd5Write

Next ==
    \/ Start \/ Cycle \/ SigRemove \/ SigKillall
    \/ TqosStarts \/ TqosMissing \/ TqosKillall
    \/ SignalLtm \/ SignalTqos \/ KillLtm \/ KillTqos \/ PowerLoss \/ Publish

(* A process that can run does, a background start in time or not. The      *)
(* network and /tmp let through every step that is tried again and again:   *)
(* ltm has no other hope than the next cycle.                               *)
Fairness ==
    /\ WF_vars(Cycle) /\ WF_vars(SigRemove) /\ WF_vars(SigKillall)
    /\ WF_vars(TqosKillall) /\ WF_vars(TqosStarts \/ TqosMissing)
    /\ SF_vars(DownloadCheck)
    /\ SF_vars(Wget /\ save' = Whole(ipk))
    /\ SF_vars(AskLength)
    /\ SF_vars(Get /\ save' = Whole(ipk))
    /\ SF_vars(UnpackFile /\ pc' = "unpack") /\ SF_vars(UnpackFile /\ pc' = "script")

Spec == Init /\ [][Next]_vars /\ Fairness

-----------------------------------------------------------------------------
TypeOK ==
    /\ published \in Packages /\ have_wget \in BOOLEAN
    /\ pc \in {"down", "sleep", "wget", "head", "get", "verify", "unpack",
              "script", "clean", "record", "write", "signal", "killall"}
    /\ ipk \in Packages \cup {NoPackage}
    /\ save \in Seq(Bytes) /\ flen \in Nat /\ cur_pos \in 0 .. flen
    /\ resp \in [data : Seq(Bytes), clen : Nat]
    /\ nfile \in 1 .. Len(Files) /\ res \in BOOLEAN
    /\ dir \in [Names -> Packages \cup {NoFile, Part}]
    /\ md5 \in Packages \cup {NoFile, Part}
    /\ tqos \in {"none", "run", "handler", "doomed", "stuck"}
    /\ busy \in BOOLEAN /\ starts \in 0 .. MaxStarts
    /\ done \subseteq Packages /\ lost \in BOOLEAN

(* A digest that is recorded is that of a package whose every file was      *)
(* unpacked from the published bytes and whose scripts were run, whatever   *)
(* the network returned and wherever an earlier ltm was stopped: no package *)
(* is skipped because of an install that was cut short (engine_start).      *)
RecordedWasInstalled == md5 \in Packages => md5 \in done

(* As long as a package is recorded, so that ltm will not install it again, *)
(* there is a tqos, one is being started, or ltm is in its handler and      *)
(* about to remove the record: sig_hand and sighandler end each other's     *)
(* process so that a tqos that dies is installed again. SIGKILL and a start *)
(* that comes to nothing are what they do not cover.                        *)
RecordedHasProcess ==
    md5 \in Packages /\ ~lost => tqos # "none" \/ starts > 0 \/ pc = "signal"

(* What ltm is able to install: without wget, the loop over the pieces asks *)
(* for one byte too many, so that no file of several pieces comes out right *)
(* (wgetfile.c:133).                                                        *)
Fetchable(p) == have_wget \/ (Size[p] <= PIECE /\ Size[p] <= RECV)

(* An ltm that is left alone records what is published, again and again, if *)
(* it can install it at all: an unpacking that failed, over a running tqos, *)
(* over what an earlier ltm left or for lack of room, is made up for.       *)
LatestIsRecorded ==
    \/ []<>(pc = "down")
    \/ []<>(md5 = published \/ ~Fetchable(published))

(* A signal to tqos while ltm runs takes the record away, so that the next  *)
(* ltm installs tqos again (tserver/main.c, sighandler; ltm/main.c,         *)
(* sig_hand).                                                               *)
AccidentForcesReinstall ==
    (tqos = "handler" /\ pc # "down") ~> (md5 \notin Packages \/ lost)
=============================================================================
