------------------------------- MODULE TestRun -------------------------------
(***************************************************************************)
(* One test run, from run_under_qnx.sh on the host to run_test.sh in the   *)
(* guest and back.  The two only meet in the shared directory: the host    *)
(* fills it, starts QEMU, and reads the exit code of the test out of it    *)
(* when QEMU is gone; the guest mounts it (MountDaemon), copies what it    *)
(* finds, runs the test and leaves its results.  The directory may be one  *)
(* an earlier run used (FSDEV_PATH).  Whatever fails or dies on the way,   *)
(* the host must not report an exit code that is not this test's.          *)
(***************************************************************************)
EXTENDS MountDaemon

VARIABLES host,     \* the script, what its caller asked for, its exit code
          share,    \* which run's content each entry has
          results,  \* test_results
          guest     \* the script, what it copied, the test's exit code

runVars == <<host, share, results, guest>>
vars    == <<mountVars, runVars>>

Files   == {"cc_test_qnx", "filters", "extra_args", "env"}
Dirs    == {"runfiles", "libs"}
Entries == Files \cup Dirs
Content == {"none", "old", "this", "mixed"}

NoEntries == [e \in Entries |-> "none"]
NoResults == [rc |-> "none", cov |-> "none"]

\* What an earlier run can have left; extra_args and env are written only
\* for tests that have some.
Leftovers == {NoEntries} \cup
    {[e \in Entries |-> IF e \in without THEN "none" ELSE "old"] :
        without \in SUBSET {"extra_args", "env"}}
OldResults == [rc : {"none", "0"}, cov : {"none", "whole"}]

Init ==
    /\ MountInit
    /\ \E reuse, args, manifest \in BOOLEAN :
       \E env \in {"none", "valid", "invalid"} :
         /\ host = [pc |-> "setup", reuse |-> reuse, args |-> args, env |-> env,
                    manifest |-> manifest, exit |-> "none"]
         /\ share \in IF reuse THEN Leftovers ELSE {NoEntries}
         /\ results \in IF share = NoEntries THEN {NoResults} ELSE OldResults
    /\ guest = [pc |-> "boot", has |-> NoEntries, rc |-> "none"]

-----------------------------------------------------------------------------
(* The host.                                                               *)

HostAt(pc) == host.pc = pc /\ UNCHANGED <<mountVars, guest>>

\* The script ends: the trap removes a directory the script created.
Ends(code) ==
    /\ host' = [host EXCEPT !.pc = "exit", !.exit = code]
    /\ share' = IF host.reuse THEN share ELSE NoEntries
    /\ results' = IF host.reuse THEN results ELSE NoResults

\* (Mutant: the results of the earlier run are not removed.)
RemovedExceptResults == Entries
\* (Mutant: its runfiles are not.)
RemovedExceptRunfiles == (Entries \ {"runfiles"}) \cup {"test_results"}
\* qemu_setup_fsdev's list.
Removed == Entries \cup {"test_results"}

SetupFsdev ==
    /\ HostAt("setup")
    /\ host' = [host EXCEPT !.pc = "binary"]
    /\ share' = [e \in Entries |-> IF e \in Removed THEN "none" ELSE share[e]]
    /\ results' = IF "test_results" \in Removed THEN NoResults ELSE results

\* A file is overwritten, a directory is added to.
Written(e) == IF e \in Dirs /\ share[e] # "none" THEN "mixed" ELSE "this"
Fill(es) == share' = [e \in Entries |-> IF e \in es THEN Written(e) ELSE share[e]]

\* The binary, its filters and its arguments.
WriteTest ==
    /\ HostAt("binary") /\ UNCHANGED results
    /\ host' = [host EXCEPT !.pc = "env"]
    /\ Fill({"cc_test_qnx", "filters"}
                \cup (IF host.args THEN {"extra_args"} ELSE {}))

\* qemu_write_forwarded_env; a name that is none ends the script.
WriteEnv ==
    /\ HostAt("env")
    /\ \/ /\ host.env # "invalid" /\ UNCHANGED results
          /\ host' = [host EXCEPT !.pc = "runfiles"]
          /\ share' = [share EXCEPT !["env"] =
                          IF host.env = "valid" THEN "this" ELSE "none"]
       \/ host.env = "invalid" /\ Ends("1")

CopyRunfiles ==
    /\ HostAt("runfiles") /\ UNCHANGED results
    /\ host' = [host EXCEPT !.pc = "qemu"]
    /\ Fill(IF host.manifest THEN Dirs ELSE {})

\* Any command fails (set -e), and so does the pipeline of QEMU (pipefail).
HostFails ==
    /\ host.pc # "exit" /\ Fault /\ Ends("1")
    /\ UNCHANGED <<machine, mnt, child, dev, guest>>

\* QEMU ends when the guest is down; it exits 0 whether that was shutdown
\* or a panic's reboot (-no-reboot).
QemuEnds ==
    /\ HostAt("qemu") /\ guest.pc = "down"
    /\ host' = [host EXCEPT !.pc = "extract"]
    /\ UNCHANGED <<share, results>>

\* (Mutant: a test without a return code is one that passed.)
NoReturnCodePasses == "0"
NoReturnCode == "1"

\* qemu_extract_results: tar fails on a torn archive, which ends the script.
Extract ==
    /\ HostAt("extract")
    /\ Ends(CASE results.cov = "torn"              -> "2"
              [] results.rc \in {"none", "empty"}  -> NoReturnCode
              [] OTHER                             -> results.rc)

-----------------------------------------------------------------------------
(* The guest.                                                              *)

Booted == host.pc = "qemu" /\ guest.pc # "down"

InMount(A) == Booted /\ A /\ UNCHANGED runVars

\* startup.sh goes on once the mount has succeeded.
StartupGoesOn ==
    /\ Booted /\ guest.pc = "boot" /\ mnt.pc = "mounted"
    /\ guest' = [guest EXCEPT !.pc = "prepare"]
    /\ UNCHANGED <<mountVars, host, share, results>>

GuestAt(pc) ==
    /\ Booted /\ guest.pc = pc
    /\ UNCHANGED <<machine, mnt, child, dev, host, share>>

Mounted == child[mnt.child].pc = "serving"

\* prepare_test.sh and the arguments of run_test.sh: what cannot be read is
\* not there, and the script goes on; a tree may be copied in part.
Prepare ==
    /\ GuestAt("prepare") /\ UNCHANGED results
    /\ \/ /\ guest' = [guest EXCEPT !.pc = "test",
                                    !.has = IF Mounted THEN share ELSE NoEntries]
          /\ UNCHANGED faults
       \/ \E e \in Entries :
            /\ Mounted /\ Fault
            /\ guest' = [guest EXCEPT !.pc = "test",
                                      !.has = [share EXCEPT ![e] = "none"]]

\* The test exits; a binary that is not there cannot be run (127).
RunTest ==
    /\ GuestAt("test") /\ UNCHANGED <<results, faults>>
    /\ \E rc \in IF guest.has["cc_test_qnx"] = "none" THEN {"127"} ELSE {"0", "1"} :
         guest' = [guest EXCEPT !.pc = "returncode", !.rc = rc]

\* mkdir, and cp of returncode.log, whole or not.
CopyReturnCode ==
    /\ GuestAt("returncode")
    /\ guest' = [guest EXCEPT !.pc = "coverage"]
    /\ \/ /\ results' = IF Mounted THEN [results EXCEPT !.rc = guest.rc]
                        ELSE results
          /\ UNCHANGED faults
       \/ /\ Mounted /\ Fault
          /\ \E rc \in {results.rc, "empty"} : results' = [results EXCEPT !.rc = rc]

\* test.xml, the log, and the archive of the coverage, if there is some.
CopyCoverage ==
    /\ GuestAt("coverage")
    /\ guest' = [guest EXCEPT !.pc = "shutdown"]
    /\ \/ UNCHANGED <<results, faults>>
       \/ /\ Mounted /\ UNCHANGED faults
          /\ results' = [results EXCEPT !.cov = "whole"]
       \/ /\ Mounted /\ Fault
          /\ results' = [results EXCEPT !.cov = "torn"]

Shutdowns == /\ GuestAt("shutdown") /\ UNCHANGED <<results, faults>>
             /\ guest' = [guest EXCEPT !.pc = "down"]

\* The guest may panic at any time.
Panics == /\ Booted /\ Fault
          /\ guest' = [guest EXCEPT !.pc = "down"]
          /\ UNCHANGED <<machine, mnt, child, dev, host, share, results>>

-----------------------------------------------------------------------------
HostStep  == \/ SetupFsdev
             \/ WriteTest \/ WriteEnv \/ CopyRunfiles \/ QemuEnds \/ Extract
GuestStep == StartupGoesOn \/ Prepare \/ RunTest \/ CopyReturnCode
                 \/ CopyCoverage \/ Shutdowns

Next == HostStep \/ GuestStep \/ HostFails \/ Panics \/ InMount(MountNext)

\* The machines run; the test ends.
Fairness == /\ WF_vars(HostStep) /\ WF_vars(GuestStep)
            /\ WF_vars(InMount(ParentReads))
            /\ WF_vars(InMount(\E c \in Child : Fork(c)))
            /\ \A c \in Child : WF_vars(InMount(ChildStep(c)))

Spec == Init /\ [][Next]_vars /\ Fairness

-----------------------------------------------------------------------------
(* Properties.                                                             *)

\* Every variable has its type.
TypeOK ==
    /\ MountTypeOK
    /\ host.pc \in {"setup", "binary", "env", "runfiles", "qemu", "extract", "exit"}
    /\ host.exit \in {"none", "0", "1", "2", "127"}
    /\ share \in [Entries -> Content]
    /\ results \in [rc : {"none", "empty", "0", "1", "127"},
                    cov : {"none", "torn", "whole"}]
    /\ guest.pc \in {"boot", "prepare", "test", "returncode", "coverage",
                     "shutdown", "down"}
    /\ guest.has \in [Entries -> Content]
    /\ guest.rc \in {"none", "0", "1", "127"}

\* The wrapper exits 0 only if the test of this boot did, whatever failed,
\* and whatever an earlier run left in the directory; when nothing failed
\* its exit code is the test's.
PassMeansPassed ==
    host.pc = "exit" =>
        /\ host.exit = "0" => guest.rc = "0"
        /\ faults = 0 /\ host.env # "invalid" => host.exit = guest.rc

Asked(e) == CASE e = "extra_args" -> host.args
              [] e = "env"        -> host.env = "valid"
              [] e \in Dirs       -> host.manifest
              [] OTHER            -> TRUE

\* A test is run with nothing of an earlier run: what it finds is this
\* run's, or missing because it was not asked for or something failed.
GuestGetsThisRun ==
    guest.pc \notin {"boot", "prepare", "down"} =>
        \A e \in Entries :
            /\ guest.has[e] \in {"none", "this"}
            /\ guest.has[e] = "this" => Asked(e)
            /\ faults = 0 /\ Asked(e) => guest.has[e] = "this"

\* The wrapper returns: no order of failures leaves the mount loop or its
\* parent waiting for ever.
HostReturns == <>(host.pc = "exit")
=============================================================================
