---- MODULE ArtifactFiles ----
(***************************************************************************)
(* One directory of artifacts: a data file and a manifest for each id      *)
(* (snapshots/registry.py, snapshots/writers.py), and the steps by which a *)
(* creation fills them.  Snapshots and Exports are two uses of it.         *)
(*                                                                         *)
(* A thread fetches the bars, opens the data file (which truncates it),    *)
(* writes it in two parts, reads it back for the hash, reads its size,     *)
(* opens the manifest (which truncates it) and writes it.  Nothing is      *)
(* locked, so other threads come between any two of these steps.  The      *)
(* content of a data file says for each part which answer of the bars it   *)
(* is from, 0 where nothing was written.                                   *)
(***************************************************************************)
EXTENDS Integers

CONSTANTS Ids,        \* the artifacts; an id is the hash of a request
          NoId,       \* what an idle thread works on
          Threads,    \* the threads that create artifacts
          NAnswers,   \* the answers that the bars of a request may have in the course of time
          NoFile,     \* what is at a path without a file
          Torn        \* what is in a manifest that is truncated and not yet written

VARIABLES data,       \* the content of the data file
          manifest,   \* the manifest
          pc, mine, bars, hash, got, \* a thread's step, its id, its bars, its hash and its manifest
          overlapped  \* history: ids whose creation was under way twice at a time, see Miss

files == <<data, manifest>>
local == <<pc, mine, bars, hash, got>>

Answers  == 1 .. NAnswers
Contents == (Answers \union {0}) \X (Answers \union {0})

\* How much of a data file is there: a part that was skipped counts as well.
Size(content) == IF content[2] # 0 THEN 2 ELSE IF content[1] # 0 THEN 1 ELSE 0

Manifests == [hash : Contents, size : 0 .. 2, bars : Answers]

ASSUME FilesAssumption ==
  /\ NoId \notin Ids
  /\ NAnswers \in Nat \ {0}
  /\ NoFile \notin Contents \union Manifests
  /\ Torn \notin Contents \union Manifests \union {NoFile}

Steps == {"fetch", "open", "part1", "part2", "hash", "stat", "save"}

Creating(t, id) == mine[t] = id /\ pc[t] \in Steps

FilesInit ==
  /\ data = [id \in Ids |-> NoFile]
  /\ manifest = [id \in Ids |-> NoFile]
  /\ pc = [t \in Threads |-> "idle"]
  /\ mine = [t \in Threads |-> NoId]
  /\ bars = [t \in Threads |-> 0]
  /\ hash = [t \in Threads |-> NoFile]
  /\ got = [t \in Threads |-> NoFile]
  /\ overlapped = {}

Goto(t, step) == pc' = [pc EXCEPT ![t] = step]

\* The creation ends with manifest m; NoFile stands for an error.
Answer(t, m) ==
  /\ Goto(t, "answered")
  /\ got' = [got EXCEPT ![t] = m]
  /\ bars' = [bars EXCEPT ![t] = 0]
  /\ hash' = [hash EXCEPT ![t] = NoFile]
  /\ UNCHANGED mine

Release(t) ==
  /\ mine' = [mine EXCEPT ![t] = NoId]
  /\ got' = [got EXCEPT ![t] = NoFile]
  /\ UNCHANGED <<bars, hash>>

\* The look-up found no manifest: the creation goes on.
Miss(t) ==
  /\ Goto(t, "fetch")
  /\ overlapped' = overlapped \union {id \in {mine[t]} : \E u \in Threads : Creating(u, id)}
  /\ UNCHANGED <<mine, bars, hash, got>>
----
\* The bars are asked for when it is this thread's turn: two creations may
\* have two answers.
Fetch(t) ==
  /\ pc[t] = "fetch"
  /\ \E a \in Answers : bars' = [bars EXCEPT ![t] = a]
  /\ Goto(t, "open")
  /\ UNCHANGED <<files, mine, hash, got, overlapped>>

OpenData(t) ==
  /\ pc[t] = "open"
  /\ data' = [data EXCEPT ![mine[t]] = <<0, 0>>]
  /\ Goto(t, "part1")
  /\ UNCHANGED <<manifest, mine, bars, hash, got, overlapped>>

\* The buffer is not written out before the file is read back.
WriteFirstPartOnly(t) ==
  /\ pc[t] = "part1"
  /\ data' = [data EXCEPT ![mine[t]][1] = bars[t]]
  /\ Goto(t, "hash")
  /\ UNCHANGED <<manifest, mine, bars, hash, got, overlapped>>

\* What the buffer holds is written out, at the place the file has reached.
WriteFirstPart(t) ==
  /\ pc[t] = "part1"
  /\ data' = [data EXCEPT ![mine[t]][1] = bars[t]]
  /\ Goto(t, "part2")
  /\ UNCHANGED <<manifest, mine, bars, hash, got, overlapped>>

WriteSecondPart(t) ==
  /\ pc[t] = "part2"
  /\ data' = [data EXCEPT ![mine[t]][2] = bars[t]]
  /\ Goto(t, "hash")
  /\ UNCHANGED <<manifest, mine, bars, hash, got, overlapped>>

HashData(t) ==
  /\ pc[t] = "hash"
  /\ data[mine[t]] # NoFile
  /\ hash' = [hash EXCEPT ![t] = data[mine[t]]]
  /\ Goto(t, "stat")
  /\ UNCHANGED <<files, mine, bars, got, overlapped>>

\* The size of the data file; then the manifest is opened.
OpenManifest(t) ==
  /\ pc[t] = "stat"
  /\ data[mine[t]] # NoFile
  /\ got' = [got EXCEPT ![t] = [hash |-> hash[t], size |-> Size(data[mine[t]]), bars |-> bars[t]]]
  /\ manifest' = [manifest EXCEPT ![mine[t]] = Torn]
  /\ bars' = [bars EXCEPT ![t] = 0]
  /\ hash' = [hash EXCEPT ![t] = NoFile]
  /\ Goto(t, "save")
  /\ UNCHANGED <<data, mine, overlapped>>

WriteManifest(t) ==
  /\ pc[t] = "save"
  /\ manifest' = [manifest EXCEPT ![mine[t]] = got[t]]
  /\ Answer(t, got[t])
  /\ UNCHANGED <<data, overlapped>>

\* The bars cannot be had, or a file cannot be opened, written or read back: the
\* files stay as they are.
Raise(t) ==
  /\ pc[t] \in Steps
  /\ Answer(t, NoFile)
  /\ UNCHANGED <<files, overlapped>>

CreateStep(t) ==
  \/ Fetch(t) \/ OpenData(t) \/ WriteFirstPart(t) \/ WriteSecondPart(t)
  \/ HashData(t) \/ OpenManifest(t) \/ WriteManifest(t)
----
FilesTypeOK ==
  /\ data \in [Ids -> Contents \union {NoFile}]
  /\ manifest \in [Ids -> Manifests \union {NoFile, Torn}]
  /\ mine \in [Threads -> Ids \union {NoId}]
  /\ bars \in [Threads -> Answers \union {0}]
  /\ hash \in [Threads -> Contents \union {NoFile}]
  /\ got \in [Threads -> Manifests \union {NoFile}]
  /\ overlapped \subseteq Ids

\* A manifest tells hash, size and rows of the data file that lies beside it.
Describes(m, content) ==
  /\ m.hash = content
  /\ m.size = Size(content)
  /\ content = <<m.bars, m.bars>>
====
