--------------------------- MODULE PcapRecordProofs ---------------------------
(***************************************************************************)
(* The recording is a beginning of the complete file, for every number of  *)
(* packets and every moment of failure.                                    *)
(***************************************************************************)
EXTENDS PcapRecord, TLAPS

\* Where the file stands, as long as it is being written, is fixed by where the
\* loop stands; that makes the properties inductive.
Length == CASE pc \in {"openfile", "filehdr"}                              -> 0
            [] pc = "rechdr"                                              -> 2 * received - 1
            [] pc = "data"                                                -> 2 * received
            [] OTHER                                                      -> 2 * received + 1

FileInv == /\ handle = "fp" => /\ Len(file) = Length
                               /\ \A i \in 1 .. Len(file) : file[i] = Expected(i)
           /\ stream = "none" => file = <<>>
           /\ pc = "openfile" => stream = "none"
           /\ pc \in {"openfile", "filehdr"} => received = 0
           /\ pc \in {"rechdr", "data"} => received >= 1
           /\ pc \in {"done", "killed"} => stream # "open"

CountInv == /\ pc \in {"openfile", "filehdr", "top", "recv", "bytes", "dispose", "closefile"}
                 => numpkts = received
            /\ pc \in {"rechdr", "data", "count"} => received = numpkts + 1
            /\ pc # "killed" => numbytes = IF pc = "bytes" THEN numpkts - 1 ELSE numpkts

Inv == TypeOK /\ HandleIsLive /\ FileInv /\ CountInv /\ RecordingIsPrefix

LEMMA InitInv == Init => Inv
  <1> SUFFICES ASSUME Init PROVE Inv
    OBVIOUS
  <1>1. file = <<>> /\ file \in Seq(Items) /\ Len(file) = 0
    BY DEF Init
  <1>2. TypeOK
    <2>1. disk \in 0 .. Len(file)
      BY <1>1 DEF Init
    <2>2. report \in [pkts : 0 .. MaxPackets, bytes : 0 .. MaxPackets]
      BY PcapAssumption DEF Init
    <2>3. received \in 0 .. MaxPackets /\ numpkts \in 0 .. MaxPackets /\ numbytes \in 0 .. MaxPackets
      BY PcapAssumption DEF Init
    <2>4. pc \in Locations /\ running \in {0, 1} /\ handle \in {"NULL", "fp"}
          /\ stream \in {"none", "open", "closed"} /\ diskfull \in BOOLEAN
      BY DEF Init, Locations
    <2> QED
      BY <1>1, <2>1, <2>2, <2>3, <2>4 DEF TypeOK
  <1>3. HandleIsLive /\ FileInv /\ CountInv /\ RecordingIsPrefix
    BY <1>1 DEF Init, HandleIsLive, FileInv, CountInv, RecordingIsPrefix
  <1> QED
    BY <1>2, <1>3 DEF Inv

\* One item written at a point where the file is as long as the loop says.
LEMMA WriteInv ==
  ASSUME Inv, NEW item \in Items, WriteBytes(item), item = Expected(Length + 1)
  PROVE  /\ file' \in Seq(Items) /\ disk' \in 0 .. Len(file')
         /\ handle' \in {"NULL", "fp"} /\ stream' \in {"none", "open", "closed"}
         /\ HandleIsLive' /\ RecordingIsPrefix'
         /\ stream' = "none" => file' = <<>>
         /\ handle' = "fp" => /\ Len(file') = Len(file) + 1 /\ handle = "fp"
                              /\ \A i \in 1 .. Len(file') : file'[i] = Expected(i)
  <1> USE DEF Inv, TypeOK, FileInv, HandleIsLive
  <1>t. Torn \in Items
    BY DEF Torn, Items
  <1>1. CASE handle = "NULL" /\ UNCHANGED fileVars
    BY <1>1 DEF fileVars, RecordingIsPrefix
  <1>2. CASE handle = "fp" /\ Accept(item)
    <2>1. /\ file' = Append(file, item) /\ file' \in Seq(Items)
          /\ Len(file') = Len(file) + 1 /\ Len(file) = Length
          /\ handle' = "fp" /\ stream' = "open" /\ disk' = disk
      BY <1>2 DEF Accept
    <2>2. \A i \in 1 .. Len(file') : file'[i] = Expected(i)
      <3> TAKE i \in 1 .. Len(file')
      <3>1. CASE i \in 1 .. Len(file)
        BY <1>2, <2>1, <3>1
      <3>2. CASE i = Len(file) + 1
        BY <2>1, <3>2
      <3> QED
        BY <2>1, <3>1, <3>2
    <2> QED
      BY <1>2, <2>1, <2>2 DEF RecordingIsPrefix
  <1>3. CASE handle = "fp" /\ Refuse(item)
    <2>1. /\ \A i \in 1 .. Len(file) : file[i] = Expected(i)
          /\ handle' = "NULL" /\ stream' = "closed" /\ disk' \in disk .. Len(file')
      BY <1>3 DEF Refuse
    <2>2. CASE file' = file
      BY <1>3, <2>1, <2>2 DEF RecordingIsPrefix
    <2>3. CASE file' = Append(file, Torn)
      <3>1. /\ file' \in Seq(Items) /\ Len(file') = Len(file) + 1
            /\ file'[Len(file) + 1] = Torn
            /\ \A i \in 1 .. Len(file) : file'[i] = file[i]
        BY <1>t, <2>3
      <3>2. \A i \in 1 .. Len(file') : i \in 1 .. Len(file) \/ i = Len(file')
        BY <3>1
      <3> QED
        BY <2>1, <3>1, <3>2 DEF RecordingIsPrefix
    <2> QED
      BY <1>3, <2>2, <2>3 DEF Refuse
  <1> QED
    BY <1>1, <1>2, <1>3 DEF WriteBytes

\* What WriteInv leaves to be checked for each of the three writes.
LEMMA WriteStepInv ==
  ASSUME Inv, NEW item \in Items, WriteBytes(item), item = Expected(Length + 1),
         pc' \in Locations \ {"openfile", "filehdr", "done", "killed"},
         UNCHANGED <<running, diskfull, countVars, report>>,
         handle' = "fp" => Length' = Length + 1,
         pc' \in {"rechdr", "data"} => received >= 1,
         CountInv'
  PROVE  Inv'
  <1>1. TypeOK'
    BY WriteInv DEF Inv, TypeOK, countVars
  <1>2. FileInv'
    <2> HIDE DEF Length
    <2> QED
      BY WriteInv DEF Inv, FileInv, countVars
  <1> QED
    BY <1>1, <1>2, WriteInv DEF Inv

LEMMA NextInv == Inv /\ [Next]_vars => Inv'
  <1> SUFFICES ASSUME Inv, [Next]_vars PROVE Inv'
    OBVIOUS
  <1>r. received \in Nat /\ numpkts \in Nat /\ numbytes \in Nat /\ MaxPackets \in Nat
    BY PcapAssumption DEF Inv, TypeOK
  <1>1. CASE WriteFileHeader
    <2>1. FileHeader \in Items /\ FileHeader = Expected(Length + 1)
      BY <1>1 DEF FileHeader, Expected, Length, WriteFileHeader, WriteStep, Items
    <2>2. Length' = Length + 1
      BY <1>1 DEF WriteFileHeader, WriteStep, Length, countVars, Inv, FileInv
    <2>3. CountInv'
      BY <1>1 DEF WriteFileHeader, WriteStep, countVars, Inv, CountInv
    <2> QED
      BY <1>1, <2>1, <2>2, <2>3, WriteStepInv DEF WriteFileHeader, WriteStep, Locations
  <1>2. CASE WriteRecHeader
    <2>0. received >= 1 /\ Length + 1 = 2 * received
      BY <1>2, <1>r DEF Length, WriteRecHeader, WriteStep, Inv, FileInv
    <2>1. RecHeader(received) \in Items /\ RecHeader(received) = Expected(Length + 1)
      <3>1. (2 * received) % 2 = 0 /\ (2 * received) \div 2 = received /\ 2 * received # 1
        BY <1>r
      <3> QED
        BY <1>r, <2>0, <3>1 DEF RecHeader, Expected, Items
    <2>2. Length' = Length + 1
      BY <1>2, <1>r DEF WriteRecHeader, WriteStep, Length, countVars
    <2>3. CountInv'
      BY <1>2 DEF WriteRecHeader, WriteStep, countVars, Inv, CountInv
    <2> QED
      BY <1>2, <2>0, <2>1, <2>2, <2>3, WriteStepInv DEF WriteRecHeader, WriteStep, Locations
  <1>3. CASE WriteData
    <2>0. received >= 1 /\ Length + 1 = 2 * received + 1
      BY <1>3, <1>r DEF Length, WriteData, WriteStep, Inv, FileInv
    <2>1. Data(received) \in Items /\ Data(received) = Expected(Length + 1)
      <3>1. /\ (2 * received + 1) % 2 = 1 /\ (2 * received + 1) \div 2 = received
            /\ 2 * received + 1 # 1
        BY <1>r, <2>0
      <3> QED
        BY <1>r, <2>0, <3>1 DEF Data, Expected, Items
    <2>2. Length' = Length + 1
      BY <1>3, <1>r DEF WriteData, WriteStep, Length, countVars
    <2>3. CountInv'
      BY <1>3 DEF WriteData, WriteStep, countVars, Inv, CountInv
    <2> QED
      BY <1>3, <2>1, <2>2, <2>3, WriteStepInv DEF WriteData, WriteStep, Locations
  \* The other steps leave the items alone.
  <1> DEFINE Rest == TypeOK /\ HandleIsLive /\ FileInv /\ CountInv /\ RecordingIsPrefix
  <1>i. Rest
    BY DEF Inv
  <1> USE <1>r, <1>i DEF TypeOK, HandleIsLive, FileInv, CountInv, Length, RecordingIsPrefix,
          fileVars, countVars, Locations
  <1>4. ASSUME OpenFile PROVE Rest'
    <2>1. file = <<>> /\ file' = file /\ Len(file) = 0 /\ disk' = disk
      BY <1>4 DEF OpenFile
    <2> QED
      BY <1>4, <2>1 DEF OpenFile
  <1>5. ASSUME CloseFile PROVE Rest'
    BY <1>5 DEF CloseFile
  <1>6. ASSUME Receive PROVE Rest'
    BY <1>6, SMTT(40) DEF Receive
  <1>7. ASSUME CountPacket PROVE Rest'
    BY <1>7 DEF CountPacket
  <1>7a. ASSUME CountBytes PROVE Rest'
    BY <1>7a DEF CountBytes
  <1>8. ASSUME Top \/ ReceiveFail \/ Dispose PROVE Rest'
    BY <1>8 DEF Top, ReceiveFail, Dispose
  <1>8a. ASSUME SigTerm PROVE Rest'
    BY <1>8a DEF SigTerm
  <1>8b. ASSUME SigUsr1 PROVE Rest'
    BY <1>8b DEF SigUsr1
  <1>8c. ASSUME DiskFills PROVE Rest'
    BY <1>8c DEF DiskFills
  <1>9. ASSUME Flush PROVE Rest'
    BY <1>9 DEF Flush
  <1>10. ASSUME Kill PROVE Rest'
    BY <1>10 DEF Kill, Alive
  <1>11. ASSUME UNCHANGED vars PROVE Rest'
    BY <1>11 DEF vars
  <1>12. ASSUME Rest' PROVE Inv'
    BY <1>12 DEF Inv
  <1> HIDE DEF Rest
  <1> QED
    BY <1>1, <1>2, <1>3, <1>4, <1>5, <1>6, <1>7, <1>7a, <1>8, <1>8a, <1>8b, <1>8c, <1>9, <1>10, <1>11, <1>12 DEF Next

LEMMA PcapInv == Spec => []Inv
  BY InitInv, NextInv, PTL DEF Spec

\* Types, for every number of packets.
THEOREM PcapTypeOK == Spec => []TypeOK
  <1>1. Inv => TypeOK
    BY DEF Inv
  <1> QED
    BY <1>1, PcapInv, PTL

\* The file is a beginning of the complete recording.
THEOREM PcapPrefix == Spec => []RecordingIsPrefix
  <1>1. Inv => RecordingIsPrefix
    BY DEF Inv
  <1> QED
    BY <1>1, PcapInv, PTL

\* The program never uses a closed stream and leaks none.
THEOREM PcapHandle == Spec => []HandleIsLive
  <1>1. Inv => HandleIsLive
    BY DEF Inv
  <1> QED
    BY <1>1, PcapInv, PTL

\* The counter SIGUSR1 prints follows the file.
THEOREM PcapCounted == Spec => []RecordedBeforeCounted
  <1>1. Inv => RecordedBeforeCounted
    <2> SUFFICES ASSUME Inv, stream = "open", pc # "filehdr"
                 PROVE  /\ numpkts <= (Len(file) - 1) \div 2
                        /\ (Len(file) - 1) \div 2 <= numpkts + 1
      BY DEF RecordedBeforeCounted
    <2>1. Len(file) = Length /\ received \in Nat /\ numpkts \in Nat
      BY PcapAssumption DEF Inv, HandleIsLive, FileInv, TypeOK
    <2>2. pc \notin {"openfile", "filehdr", "done", "killed"}
      BY DEF Inv, HandleIsLive, FileInv
    <2>3. CASE pc = "rechdr"
      <3>1. (2 * received - 1 - 1) \div 2 = received - 1 /\ received = numpkts + 1
        BY <2>1, <2>3 DEF Inv, CountInv
      <3>2. Length = 2 * received - 1
        BY <2>3 DEF Length
      <3> QED
        BY <2>1, <3>1, <3>2
    <2>4. CASE pc = "data"
      <3>1. (2 * received - 1) \div 2 = received - 1 /\ received = numpkts + 1
        BY <2>1, <2>4 DEF Inv, CountInv
      <3>2. Length = 2 * received
        BY <2>4 DEF Length
      <3> QED
        BY <2>1, <3>1, <3>2
    <2>5. CASE pc \notin {"rechdr", "data"}
      <3>1. Length = 2 * received + 1
        BY <2>2, <2>5 DEF Length
      <3>2. (2 * received + 1 - 1) \div 2 = received
        BY <2>1
      <3>3. numpkts <= received /\ received <= numpkts + 1
        BY <2>1, <2>2, <2>5 DEF Inv, CountInv, TypeOK, Locations
      <3> QED
        BY <2>1, <3>1, <3>2, <3>3
    <2> QED
      BY <2>3, <2>4, <2>5
  <1> QED
    BY <1>1, PcapInv, PTL

\* A stream that was closed was given up for a full disk, or flushed at the end; and
\* what a report shows was taken where the counters differ by one packet at most.
Accounts ==
  /\ stream = "closed" /\ ~diskfull /\ pc # "killed" => pc = "done" /\ disk = 1 + 2 * received
  /\ ReportSkew

LEMMA AccountsInv == Inv /\ Accounts /\ [Next]_vars => Accounts'
  <1> SUFFICES ASSUME Inv, Accounts, [Next]_vars PROVE Accounts'
    OBVIOUS
  <1> USE DEF fileVars, countVars
  <1>1. CASE WriteFileHeader \/ WriteRecHeader \/ WriteData
    <2>1. /\ stream' # stream => diskfull /\ stream' = "closed"
          /\ stream' = "closed" => stream = "closed" \/ diskfull
          /\ pc \notin {"done", "killed"} /\ diskfull' = diskfull /\ report' = report
      BY <1>1 DEF WriteFileHeader, WriteRecHeader, WriteData, WriteStep, WriteBytes, Accept, Refuse
    <2> QED
      BY <2>1 DEF Accounts, ReportSkew
  <1>2. CASE CloseFile
    <2>1. CASE handle = "NULL"
      BY <1>2, <2>1 DEF CloseFile, Accounts, ReportSkew
    <2>2. CASE handle = "fp"
      <3>1. Len(file) = 2 * received + 1 /\ received \in Nat
        BY <1>2, <2>2, PcapAssumption DEF CloseFile, Inv, TypeOK, FileInv, Length
      <3>2. ~diskfull => disk' = Len(file)
        BY <1>2, <2>2 DEF CloseFile
      <3>3. pc' = "done" /\ diskfull' = diskfull /\ received' = received /\ report' = report
        BY <1>2 DEF CloseFile
      <3> QED
        BY <3>1, <3>2, <3>3 DEF Accounts, ReportSkew
    <2> QED
      BY <1>2, <2>1, <2>2 DEF CloseFile
  <1>3. CASE SigUsr1
    <2>1. numbytes <= numpkts /\ numpkts <= numbytes + 1
      BY <1>3, PcapAssumption DEF SigUsr1, Alive, Inv, CountInv, TypeOK
    <2> QED
      BY <1>3, <2>1 DEF SigUsr1, Accounts, ReportSkew
  <1>4. CASE OpenFile
    BY <1>4 DEF OpenFile, Accounts, ReportSkew, Inv, FileInv
  <1>5. CASE Flush
    BY <1>5 DEF Flush, Accounts, ReportSkew
  <1>6. CASE Top \/ Receive \/ ReceiveFail \/ CountPacket \/ CountBytes \/ Dispose
    BY <1>6 DEF Top, Receive, ReceiveFail, CountPacket, CountBytes, Dispose, Accounts, ReportSkew
  <1>7. CASE SigTerm \/ DiskFills \/ Kill \/ UNCHANGED vars
    BY <1>7 DEF SigTerm, DiskFills, Kill, vars, Accounts, ReportSkew
  <1> QED
    BY <1>1, <1>2, <1>3, <1>4, <1>5, <1>6, <1>7 DEF Next

\* After an orderly end the disk has every packet unless it filled up, and a report
\* taken at any moment lacks the bytes of one packet at most.
THEOREM PcapAccounts == Spec => []AccountsForAll
  <1>1. Init => Accounts
    BY DEF Init, Accounts, ReportSkew
  <1>2. Inv /\ Accounts => AccountsForAll
    <2> SUFFICES ASSUME Inv, Accounts, pc = "done", stream # "none", ~diskfull
                 PROVE  disk = 1 + 2 * received
      BY DEF AccountsForAll, CompleteUnlessDiskFull, Accounts
    <2> QED
      BY DEF Inv, TypeOK, FileInv, Accounts
  <1> QED
    BY <1>1, <1>2, AccountsInv, PcapInv, PTL DEF Spec
===============================================================================
