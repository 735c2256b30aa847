----------------------------- MODULE SeedWriter -----------------------------
(***************************************************************************)
(* What a seed generator promises about the directory                      *)
(* WORKDIR/generated_corpus that it shares with the fuzzer: a seed file is  *)
(* named by the hash of the model's answer, comes into being truncated      *)
(* (open(.., 'w')), is filled by the close, may be truncated and filled     *)
(* again by a later batch, and never goes away.  SeedGeneration implements  *)
(* this; SeedExchange is built on it.                                       *)
(***************************************************************************)

CONSTANT Names          \* names a seed file can have: sha1 of an answer

VARIABLE seed           \* seed[n]: what is on disk under the name n

\* "empty" is the file between open(.., 'w') and the flush of its one write.
Contents == {"absent", "empty", "raw"}

WriterTypeOK == seed \in [Names -> Contents]

WriterInit == seed = [n \in Names |-> "absent"]

\* open(os.path.join(out_dir, force_fn), 'w'): created, or truncated.
OpenSeed(n) == seed' = [seed EXCEPT ![n] = "empty"]

\* f.write and the close that flushes it.
FillSeed(n) ==
  /\ seed[n] # "absent"
  /\ seed' = [seed EXCEPT ![n] = "raw"]

WriterNext == \E n \in Names : OpenSeed(n) \/ FillSeed(n)

WriterSpec == WriterInit /\ [][WriterNext]_seed
=============================================================================
