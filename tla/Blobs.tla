------------------------------- MODULE Blobs --------------------------------
(***************************************************************************)
(* The blob store (blobs.go) over one object of a JetStream ObjectStore.   *)
(*                                                                         *)
(* Put looks for the object, compares digests if it is there, and stores   *)
(* its content if it is not; nothing fences the two steps on each other.   *)
(* The ObjectStore writes the chunks of an object under a fresh            *)
(* identifier and then its metadata, which makes it the live object in one *)
(* step and replaces the one before, whose chunks it then purges if it had *)
(* found it; Delete marks the metadata and purges.  What follows the       *)
(* metadata is part of that step.  Each Put writes at most one object, so  *)
(* a Put's name serves as the identifier of what it wrote.                 *)
(*                                                                         *)
(* A content is a sequence of chunks and a chunk a sequence of bytes.  The *)
(* digest identifies the bytes, so contents stand for their own digests.   *)
(* A request still on the wire when its caller gives up is a Put or Delete *)
(* that has not taken its next step: what it returned is of no consequence *)
(* then.                                                                   *)
(***************************************************************************)
EXTENDS Integers, Sequences, SequencesExt

CONSTANTS Puts, Deletes,
          Contents,     \* what each Put may store
          Damages,      \* chunk payloads a damaged store may return
          MaxDamages,   \* bound: chunks the store loses or alters
          None

ASSUME BlobConstants ==
  /\ None \notin Puts
  /\ Contents \in [Puts -> SUBSET Seq(Seq(Int))] /\ Damages \subseteq Seq(Int)
  /\ MaxDamages \in Nat

VARIABLES
  meta,     \* the Put whose object is live, or None
  chunks,   \* the chunk messages stored under each Put's identifier
  damages,  \* how many chunks were lost or altered
  pc,       \* where each Put is
  content,  \* what it stores
  ret,      \* what it returned
  dpc,      \* where each Delete is
  dold,     \* the object it found
  excused   \* history: successful Puts that overlapped another, or met a Delete

objectVars == <<meta, chunks, damages>>
putVars == <<pc, content, ret>>
storeVars == <<objectVars, putVars, dpc, dold, excused>>

\* The chunk messages of a content, numbered in stream order.
Messages(c) == [i \in 1..Len(c) |-> [seq |-> i, data |-> c[i]]]

StoreInit ==
  /\ meta = None /\ chunks = [p \in Puts |-> <<>>] /\ damages = 0
  /\ pc = [p \in Puts |-> "idle"] /\ content = [p \in Puts |-> <<>>]
  /\ ret = [p \in Puts |-> "none"]
  /\ dpc = [d \in Deletes |-> "idle"] /\ dold = [d \in Deletes |-> None]
  /\ excused = {}

-----------------------------------------------------------------------------
(* Put *)

Writing == {p \in Puts : pc[p] = "store"}

\* A Put returns; a success is excused if another Put is still writing.
Return(p, what) ==
  /\ pc' = [pc EXCEPT ![p] = "done"]
  /\ ret' = [ret EXCEPT ![p] = what]
  /\ excused' = IF what = "ok" /\ Writing \ {p} # {} THEN excused \cup {p} ELSE excused

AbsentAlways == TRUE

\* getInfo: errObjNotFound
Absent == meta = None

\* Put reads its source and looks for the object.
Look(p, c) ==
  /\ pc[p] = "idle"
  /\ \/ /\ Absent
        /\ content' = [content EXCEPT ![p] = c]
        /\ pc' = [pc EXCEPT ![p] = "store"]
        /\ UNCHANGED <<ret, excused>>
     \/ /\ ~Absent /\ content[meta] = c
        /\ content' = [content EXCEPT ![p] = c]
        /\ Return(p, "ok")
     \/ /\ ~Absent /\ content[meta] # c
        /\ Return(p, "conflict")
        /\ UNCHANGED content
  /\ UNCHANGED <<objectVars, dpc, dold>>

Purged(c, o) == [p \in Puts |-> IF p = o THEN <<>> ELSE c[p]]

\* The write becomes visible with its metadata, and replaces whatever object is
\* there by now, whose chunks are purged if it was there when the write began.
\* Put returns nil, or an error when the answer is lost or the purge fails.
Store(p) ==
  /\ pc[p] = "store"
  /\ meta' = p
  /\ LET stored == [chunks EXCEPT ![p] = Messages(content[p])]
     IN chunks' \in {stored, Purged(stored, meta)}
  /\ Return(p, "ok") \/ Return(p, "error")
  /\ UNCHANGED <<damages, content, dpc, dold>>

\* BlobOpError: nothing was stored.
PutFails(p) ==
  /\ pc[p] = "store"
  /\ Return(p, "error")
  /\ UNCHANGED <<objectVars, content, dpc, dold>>

-----------------------------------------------------------------------------
(* Delete, and damage to the store *)

\* Deleting an absent object succeeds at once.
DeleteLook(d) ==
  /\ dpc[d] = "idle"
  /\ dold' = [dold EXCEPT ![d] = meta]
  /\ dpc' = [dpc EXCEPT ![d] = IF meta = None THEN "done" ELSE "mark"]
  /\ UNCHANGED <<objectVars, putVars, excused>>

\* The deletion marker replaces the metadata, whoever wrote it since.
DeleteMark(d) ==
  /\ dpc[d] = "mark"
  /\ meta' = None
  /\ chunks' = Purged(chunks, dold[d])
  /\ excused' = excused \cup {p \in Puts : p \in Writing \/ ret[p] = "ok"}
  /\ dpc' = [dpc EXCEPT ![d] = "done"]
  /\ dold' = [dold EXCEPT ![d] = None]
  /\ UNCHANGED <<damages, putVars>>

\* A chunk of the live object is lost, or comes back with other bytes.
Damage(p) ==
  /\ p = meta /\ damages < MaxDamages
  /\ damages' = damages + 1
  /\ \E i \in 1..Len(chunks[p]) :
       \/ chunks' = [chunks EXCEPT ![p] = RemoveAt(@, i)]
       \/ \E b \in Damages : chunks' = [chunks EXCEPT ![p][i].data = b]
  /\ UNCHANGED <<meta, putVars, dpc, dold, excused>>

StoreNext ==
  \/ \E p \in Puts : (\E c \in Contents[p] : Look(p, c))
                       \/ Store(p) \/ PutFails(p)
                       \/ Damage(p)
  \/ \E d \in Deletes : DeleteLook(d) \/ DeleteMark(d)

-----------------------------------------------------------------------------
(* Properties *)

\* Content whose Put returned nil is not replaced by a Put that began later, and
\* if no other Put overlapped it stays until a Delete.  That is what the look
\* before the store guarantees of a store "immutable per key"; of two Puts that
\* both found the object absent the later one replaces what the earlier stored.
AckedUnlessRaced ==
  \A p \in Puts \ excused :
    ret[p] = "ok" => meta # None /\ content[meta] = content[p]

\* The live object's Put is over.  A success that overlapped none leaves no Put writing,
\* and with the object there none begins to.
StoreInv ==
  /\ meta # None => pc[meta] = "done"
  /\ \A p \in Puts : ret[p] # "none" => pc[p] = "done"
  /\ \A p \in Puts \ excused :
       ret[p] = "ok" => meta # None /\ content[meta] = content[p] /\ Writing = {}
=============================================================================
