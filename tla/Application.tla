---------------------------- MODULE Application ----------------------------
(***************************************************************************)
(* The guest application (app/src/application.ts): boot over the two flash *)
(* drives, registration of the application's contracts, and the rollup     *)
(* loop that feeds the router one input at a time.                         *)
(*                                                                         *)
(* A program is what main() does after boot: its contract() calls, in      *)
(* order.  The guest may be booted again over the same drives before it    *)
(* enters the loop; once there it never boots again, for the chain goes on *)
(* from the machine's snapshots.  An error that escapes boot ends main().  *)
(*                                                                         *)
(* What the guest writes to a drive is in its page cache; only what sync   *)
(* has flushed is sure to be in the machine's state, where the host reads  *)
(* it while the machine is parked.                                         *)
(***************************************************************************)
EXTENDS Router, AbiDrive

CONSTANTS Programs,   \* sequences of contracts: [address, abi]
          BuiltInAbi, \* [BuiltIn -> ABI]
          MaxTorn     \* bound on boots cut between the two counters

VARIABLES program,    \* this guest's program
          phase,      \* "off", "boot", "loop", or "dead": main() ended
          step,       \* the next registration of boot
          abiStore,   \* the ABI drive, through the page cache
          abiDrive,   \* the AbiDrive object
          writes,     \* how many of its writes a registration has made
          torn,       \* boots cut between the two counters, for the properties
          device      \* both drives, as the machine's state has them

bootVars == <<program, phase, step, abiStore, abiDrive, writes, torn, device>>
appVars == <<vars, bootVars>>

(* BUILTINS, in the order assemble records them. *)
BUILTINS == <<"registry", "bridge", "config", "l1block", "messenger", "l2bridge", "passer">>

Reserved(address) == address \in BuiltIn

(* What boot registers, in order: the built-ins, then the program's calls. *)
Registrations ==
  [i \in DOMAIN BUILTINS |-> [address |-> BUILTINS[i], kind |-> "system", abi |-> BuiltInAbi[BUILTINS[i]]]]
  \o [i \in DOMAIN program |-> [address |-> program[i].address, kind |-> "app", abi |-> program[i].abi]]

(* Application.boot: Ledger.openDevice and AbiDrive.openOrFormat. *)
Boot ==
  /\ phase = "off"
  /\ abiStore' = OpenOrFormat(abiStore)
  /\ abiDrive' = Opened(abiStore')
  /\ phase' = "boot" /\ step' = 1
  /\ UNCHANGED <<vars, program, writes, torn, device>>

routerVars == <<ledger, ram, attributes, lastBlock, result, circulating, escrow, moved, inputs>>

Registration == Registrations[step]

(* contract() routes the address before it records it.  An address that is  *)
(* reserved or routed already, and a drive that refuses, end main(); what   *)
(* the drive has already is not written again.                              *)
RegisterNext ==
  LET r == Registration
      routed == r.kind = "app" /\ (Reserved(r.address) \/ r.address \in manifest)
      answer == IF routed THEN "routed" ELSE RegisterRefusal(abiStore, abiDrive, r.address, r.kind, r.abi)
  IN /\ phase = "boot" /\ step \in DOMAIN Registrations /\ writes = 0
     /\ manifest' = IF routed THEN manifest ELSE manifest \cup {r.address}
     /\ abiStore' = IF answer = "none" THEN WriteBlob(abiStore, abiDrive, r.abi) ELSE abiStore
     /\ writes' = IF answer = "none" THEN 1 ELSE 0
     /\ step' = IF answer = "recorded" THEN step + 1 ELSE step
     /\ phase' = IF answer \in {"none", "recorded"} THEN "boot" ELSE "dead"
     /\ UNCHANGED <<routerVars, program, abiDrive, torn, device>>

RegisterEntry ==
  /\ phase = "boot" /\ writes = 1 /\ writes' = 2
  /\ abiStore' = WriteEntry(abiStore, abiDrive, Registration.address, Registration.kind,
                            Registration.abi)
  /\ UNCHANGED <<vars, program, phase, step, abiDrive, torn, device>>

RegisterCount ==
  /\ phase = "boot" /\ writes = 2 /\ writes' = 3
  /\ abiDrive' = Counted(abiDrive, Registration.abi)
  /\ abiStore' = WriteCount(abiStore, abiDrive')
  /\ UNCHANGED <<vars, program, phase, step, torn, device>>

RegisterHeapUsed ==
  /\ phase = "boot" /\ writes = 3 /\ writes' = 0
  /\ abiStore' = WriteHeapUsed(abiStore, abiDrive)
  /\ step' = step + 1
  /\ UNCHANGED <<vars, program, phase, abiDrive, torn, device>>

(* The guest is started again; its memory is lost, its drives are not.      *)
Reboot ==
  /\ phase \in {"boot", "dead"}
  /\ manifest' = BuiltIn
  /\ abiDrive' = Opened(BlankStore)
  /\ phase' = "off" /\ step' = 1 /\ writes' = 0
  /\ IF writes = 3 THEN torn < MaxTorn /\ torn' = torn + 1 ELSE UNCHANGED torn
  /\ UNCHANGED <<routerVars, program, abiStore, device>>

Synced(l, abi) == [accounts |-> DriveOf(l), abi |-> abi]

(* Application.run, to the first yield. *)
EnterLoop ==
  /\ phase = "boot" /\ step = Len(Registrations) + 1
  /\ phase' = "loop"
  /\ device' = Synced(ledger, abiStore)
  /\ UNCHANGED <<vars, program, step, abiStore, abiDrive, writes, torn>>

(* An input is routed, then the ledger's drive is flushed; a rejected one   *)
(* takes the machine's state back with it.  The loop does not touch the ABI *)
(* drive; after a torn boot it is followed (a bound) only over inputs that  *)
(* change nothing.                                                          *)
LoopAdvance ==
  /\ phase = "loop"
  /\ RouterNext
  /\ torn > 0 => UNCHANGED machineVars
  /\ device' = IF result'.kind \in {"reject", "simulated"} THEN device
               ELSE [Synced(ledger', abiStore) EXCEPT !.abi = device.abi]
  /\ UNCHANGED <<program, phase, step, abiStore, abiDrive, writes, torn>>

Init ==
  /\ RouterInit
  /\ program \in Programs
  /\ phase = "off" /\ step = 1
  /\ abiStore = BlankStore
  /\ abiDrive = Opened(BlankStore)
  /\ writes = 0 /\ torn = 0
  /\ device = [accounts |-> Absent, abi |-> BlankStore]

Next ==
  \/ Boot
  \/ RegisterNext
  \/ RegisterEntry
  \/ RegisterCount
  \/ RegisterHeapUsed
  \/ Reboot
  \/ EnterLoop
  \/ LoopAdvance

Spec == Init /\ [][Next]_appVars

-----------------------------------------------------------------------------
(* Properties.                                                             *)

(* What the host reads out of the parked machine is what the guest acts on. *)
(* The accounts drive is the ledger, whatever became of the input           *)
(* (application.ts:155); the ABI drive lists every routed address exactly   *)
(* once, with its kind, however often the guest was booted over the drive   *)
(* and wherever a boot was cut (application.ts:120, abi-drive               *)
(* index.ts:184), and with the very ABI it was registered with, but for one *)
(* cut: after the write of the count (index.ts:211) and before that of the  *)
(* heap's use (index.ts:213).  There the next boot puts the next ABI over   *)
(* the last one recorded.                                                   *)
HostReadsTheGuest ==
  phase = "loop" =>
    /\ device.accounts = DriveOf(ledger)
    /\ \A i \in DOMAIN Registrations :
         LET r      == Registrations[i]
             listed == SelectSeq(Entries(device.abi), LAMBDA e : e.address = r.address)
         IN /\ Len(listed) = 1 /\ listed[1].kind = r.kind
            /\ torn = 0 => listed[1] = r
=============================================================================
