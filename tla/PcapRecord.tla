------------------------------ MODULE PcapRecord ------------------------------
(***************************************************************************)
(* nfm_sample_pcap_record.c: the receive loop that copies every packet to a*)
(* pcap file before it transmits or drops it.  The file is written through *)
(* a stdio stream: a write that fails closes the stream and ends the       *)
(* recording, but not the program.  SIGUSR1 prints the two counters at     *)
(* whatever point the loop has reached; SIGTERM ends the loop; SIGKILL ends*)
(* the process with whatever the stream had flushed.                       *)
(*                                                                         *)
(* A file is a sequence of items: the file header, then for the k-th packet*)
(* its record header and its data.  A packet has length one.               *)
(***************************************************************************)
EXTENDS Integers, Sequences

CONSTANT MaxPackets   \* bound: packets that arrive in one run

ASSUME PcapAssumption == MaxPackets \in Nat

VARIABLES
  pc,         \* the next statement of main()
  running,    \* cleared by sig_term
  handle,     \* pcapfile: "NULL" or "fp"
  stream,     \* what the C library has behind it: "none", "open", "closed"
  file,       \* the items the stream has accepted
  disk,       \* how many of them have reached the disk
  diskfull,   \* the disk is full: writes and flushes may fail from now on
  received,   \* packets received so far (history)
  numpkts, numbytes,   \* the program's counters
  report      \* what the last SIGUSR1 printed

fileVars == <<handle, stream, file, disk>>
countVars == <<received, numpkts, numbytes>>
vars == <<pc, running, handle, stream, file, disk, diskfull,
          received, numpkts, numbytes, report>>

FileHeader == [kind |-> "file", pkt |-> 0]
RecHeader(k) == [kind |-> "rec", pkt |-> k]
Data(k) == [kind |-> "data", pkt |-> k]
Torn == [kind |-> "torn", pkt |-> 0]      \* the part of an item that got through
Items == [kind : {"file", "rec", "data", "torn"}, pkt : Nat]

Locations == {"openfile", "filehdr", "top", "recv", "rechdr", "data", "count", "bytes",
              "dispose", "closefile", "done", "killed"}

TypeOK == /\ pc \in Locations
          /\ running \in {0, 1}
          /\ handle \in {"NULL", "fp"}
          /\ stream \in {"none", "open", "closed"}
          /\ file \in Seq(Items)
          /\ disk \in 0 .. Len(file)
          /\ diskfull \in BOOLEAN
          /\ received \in 0 .. MaxPackets
          /\ numpkts \in 0 .. MaxPackets
          /\ numbytes \in 0 .. MaxPackets
          /\ report \in [pkts : 0 .. MaxPackets, bytes : 0 .. MaxPackets]

Init == /\ pc = "openfile"
        /\ running = 1
        /\ handle = "NULL" /\ stream = "none"
        /\ file = <<>> /\ disk = 0
        /\ diskfull = FALSE
        /\ received = 0 /\ numpkts = 0 /\ numbytes = 0
        /\ report = [pkts |-> 0, bytes |-> 0]

-------------------------------------------------------------------------------
(* The file. *)

\* simple_pcap_open up to its write: main() was given no file name, or fopen
\* fails, or a new stream is open.
OpenFile ==
  /\ pc = "openfile"
  /\ \/ /\ pc' = "top"
        /\ UNCHANGED <<handle, stream>>
     \/ /\ pc' = "filehdr"
        /\ handle' = "fp"
        /\ stream' = "open"
  /\ UNCHANGED <<running, file, disk, diskfull, countVars, report>>

\* fwrite takes the whole item.
Accept(item) == /\ file' = Append(file, item)
                /\ UNCHANGED <<handle, stream, disk>>

\* Mutant: the handle is not cleared.
RefuseKeepsHandle(item) == /\ diskfull
                           /\ file' \in {file, Append(file, Torn)}
                           /\ disk' \in disk .. Len(file')
                           /\ stream' = "closed"
                           /\ UNCHANGED handle

\* fwrite takes part of it or nothing; the stream is closed, losing any of what
\* it had not flushed, and the handle is cleared.
Refuse(item) == /\ diskfull
                /\ file' \in {file, Append(file, Torn)}
                /\ disk' \in disk .. Len(file')
                /\ stream' = "closed"
                /\ handle' = "NULL"

\* Mutant: a refused item is skipped and the recording goes on.
WriteBytesSkips(item) == \/ handle = "NULL" /\ UNCHANGED fileVars
                         \/ handle = "fp" /\ Accept(item)
                         \/ handle = "fp" /\ diskfull /\ UNCHANGED fileVars

\* simple_pcap_write_bytes: nothing without a stream.
WriteBytes(item) == \/ handle = "NULL" /\ UNCHANGED fileVars
                    \/ handle = "fp" /\ (Accept(item) \/ Refuse(item))

WriteStep(from, item, to) ==
  /\ pc = from
  /\ WriteBytes(item)
  /\ pc' = to
  /\ UNCHANGED <<running, diskfull, countVars, report>>

WriteFileHeader == WriteStep("filehdr", FileHeader, "top")

\* Mutant: the data is not written.
WriteRecHeaderOnly == WriteStep("rechdr", RecHeader(received), "count")

\* simple_pcap_write_packet: two separate writes, the second one also when the
\* first has failed.
WriteRecHeader == WriteStep("rechdr", RecHeader(received), "data")
WriteData == WriteStep("data", Data(received), "count")

\* Mutant: simple_pcap_close is left out.
CloseFileForgotten ==
  /\ pc = "closefile"
  /\ pc' = "done"
  /\ UNCHANGED <<running, fileVars, diskfull, countVars, report>>

\* ns_packet_close_device, then simple_pcap_close: fclose flushes, if it can.
CloseFile ==
  /\ pc = "closefile"
  /\ pc' = "done"
  /\ \/ handle = "NULL" /\ UNCHANGED fileVars
     \/ /\ handle = "fp"
        /\ disk' \in IF diskfull THEN disk .. Len(file) ELSE {Len(file)}
        /\ stream' = "closed"
        /\ handle' = "NULL"
        /\ UNCHANGED file
  /\ UNCHANGED <<running, diskfull, countVars, report>>

-------------------------------------------------------------------------------
(* The loop. *)

\* while (running)
Top ==
  /\ pc = "top"
  /\ pc' = IF running = 1 THEN "recv" ELSE "closefile"
  /\ UNCHANGED <<running, fileVars, diskfull, countVars, report>>

\* ns_packet_receive succeeds; with a file, the packet is recorded first.  It may
\* do so although the flag has been cleared since it was read.
Receive ==
  /\ pc = "recv"
  /\ received < MaxPackets
  /\ received' = received + 1
  /\ pc' = IF handle = "fp" THEN "rechdr" ELSE "count"
  /\ UNCHANGED <<running, fileVars, diskfull, numpkts, numbytes, report>>

\* ... or fails: "continue".
ReceiveFail ==
  /\ pc = "recv"
  /\ pc' = "top"
  /\ UNCHANGED <<running, fileVars, diskfull, countVars, report>>

\* numpkts++
CountPacket ==
  /\ pc = "count"
  /\ numpkts' = numpkts + 1
  /\ pc' = "bytes"
  /\ UNCHANGED <<running, fileVars, diskfull, received, numbytes, report>>

\* numbytes += pckt.packet_length
CountBytes ==
  /\ pc = "bytes"
  /\ numbytes' = numbytes + 1
  /\ pc' = "dispose"
  /\ UNCHANGED <<running, fileVars, diskfull, received, numpkts, report>>

\* Mutant: a packet that could not be transmitted is counted again.
DisposeRecounts ==
  /\ pc = "dispose"
  /\ pc' \in {"top", "count"}
  /\ UNCHANGED <<running, fileVars, diskfull, countVars, report>>

\* The packet is dropped, transmitted, or destroyed after a failed transmit
\* (WireLoop follows its buffer).
Dispose ==
  /\ pc = "dispose"
  /\ pc' = "top"
  /\ UNCHANGED <<running, fileVars, diskfull, countVars, report>>

-------------------------------------------------------------------------------
(* Signals, the disk and the end. *)

Alive == pc \notin {"done", "killed"}

SigTerm ==
  /\ Alive
  /\ running' = 0
  /\ UNCHANGED <<pc, fileVars, diskfull, countVars, report>>

\* sig_usr1 prints both counters between any two statements of the loop.
SigUsr1 ==
  /\ Alive
  /\ report' = [pkts |-> numpkts, bytes |-> numbytes]
  /\ UNCHANGED <<pc, running, fileVars, diskfull, countVars>>

\* The stream writes some of its buffer out.
Flush ==
  /\ stream = "open" /\ ~diskfull
  /\ disk' \in disk + 1 .. Len(file)
  /\ UNCHANGED <<pc, running, handle, stream, file, diskfull, countVars, report>>

DiskFills ==
  /\ Alive /\ ~diskfull
  /\ diskfull' = TRUE
  /\ UNCHANGED <<pc, running, fileVars, countVars, report>>

\* SIGKILL, or a power failure: what was not flushed is gone.
Kill ==
  /\ Alive
  /\ pc' = "killed"
  /\ stream' = IF stream = "open" THEN "closed" ELSE stream
  /\ handle' = "NULL"
  /\ UNCHANGED <<running, file, disk, diskfull, countVars, report>>

Next == \/ OpenFile \/ WriteFileHeader \/ WriteRecHeader \/ WriteData \/ CloseFile
        \/ Top \/ Receive \/ ReceiveFail \/ CountPacket \/ CountBytes \/ Dispose
        \/ SigTerm \/ SigUsr1 \/ Flush \/ DiskFills \/ Kill

Spec == Init /\ [][Next]_vars

-------------------------------------------------------------------------------
(* Correctness. *)

\* The i-th item of a complete recording.
Expected(i) == IF i = 1 THEN FileHeader
               ELSE IF i % 2 = 0 THEN RecHeader(i \div 2) ELSE Data(i \div 2)

\* Whatever fails and whenever, the file is a beginning of the complete
\* recording: no packet is missing in the middle, no record lacks its header, and
\* only the very last item of a stream that was given up can be torn.
RecordingIsPrefix ==
  \A i \in 1 .. Len(file) :
    \/ file[i] = Expected(i)
    \/ i = Len(file) /\ file[i] = Torn /\ stream = "closed"

\* The program has a handle exactly while the stream is open: it never writes to
\* or closes a stream that simple_pcap_write_bytes closed, and leaks none.
HandleIsLive == handle = "fp" <=> stream = "open"

\* After an orderly end the disk has every packet, unless it filled up.
CompleteUnlessDiskFull ==
  (pc = "done" /\ stream # "none" /\ ~diskfull) => disk = 1 + 2 * received

\* While recording, the count that SIGUSR1 would print is never ahead of the
\* packets on file and at most one behind.
RecordedBeforeCounted ==
  (stream = "open" /\ pc # "filehdr") =>
    LET recorded == (Len(file) - 1) \div 2
    IN numpkts <= recorded /\ recorded <= numpkts + 1

\* A SIGUSR1 report may fall between the two counters, but then it lacks the
\* bytes of one packet only.
ReportSkew == report.bytes <= report.pkts /\ report.pkts <= report.bytes + 1

\* What ends up on the disk, and what a report says, accounts for what was received.
AccountsForAll == CompleteUnlessDiskFull /\ ReportSkew
===============================================================================
