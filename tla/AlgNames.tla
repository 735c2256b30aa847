------------------------------ MODULE AlgNames ------------------------------
(* The tables of crypto algorithms and the expansion of a random name           *)
(* (sys-linux-specifications/init_alg.go).  A template takes arguments of given *)
(* types; every other entry is a complete algorithm, whatever its name looks    *)
(* like, so the complete algorithms of a type are kept as their number.         *)
EXTENDS Naturals, Sequences, FiniteSets

Types == {"cipher", "skcipher", "aead", "hash", "rng"}
\* The types a socket address or an alg_name may ask for.
allTypes == {"aead", "skcipher", "hash", "rng"}

algDesc(name, args) == [name |-> name, args |-> args]

AeadTemplates ==
    {algDesc(n, <<"hash", "skcipher">>) : n \in {"authenc", "authencesn"}} \cup
    {algDesc(n, <<"skcipher", "hash">>) :
        n \in {"ccm_base", "gcm_base", "rfc7539", "rfc7539esp"}} \cup
    {algDesc(n, <<"cipher">>) : n \in {"ccm", "gcm"}} \cup
    {algDesc(n, <<"aead">>) :
        n \in {"echainiv", "pcrypt", "rfc4106", "rfc4309", "rfc4543", "seqiv"}} \cup
    {algDesc("essiv", <<"aead", "hash">>)}
SkcipherTemplates ==
    {algDesc("adiantum", <<"skcipher", "cipher", "hash">>),
     algDesc("adiantum", <<"skcipher", "cipher">>), algDesc("essiv", <<"skcipher", "hash">>)} \cup
    {algDesc(n, <<"cipher">>) :
        n \in {"cbc", "cfb", "ctr", "ecb", "kw", "lrw", "ofb", "pcbc", "xts"}} \cup
    {algDesc(n, <<"skcipher">>) : n \in {"cryptd", "cts", "fpu", "lrw", "rfc3686", "xts"}}
HashTemplates ==
    {algDesc(n, <<"cipher">>) : n \in {"cbcmac", "cmac", "vmac", "vmac64", "xcbc"}} \cup
    {algDesc(n, <<"hash">>) : n \in {"cryptd", "hmac", "mcryptd"}}

(* The number of complete algorithms and the templates their names mention,    *)
(* as in gcm(aes).                                                            *)
AeadAlgorithms == [number |-> 23, mention |-> {"gcm", "gcm_base", "rfc4106"}]
SkcipherAlgorithms ==
    [number |-> 143, mention |-> {"cbc", "ctr", "cts", "ecb", "essiv", "fpu", "lrw", "pcbc", "xts"}]
CipherAlgorithms == [number |-> 52, mention |-> {}]
HashAlgorithms == [number |-> 168, mention |-> {"cbcmac", "cmac", "hmac", "xcbc"}]
RngAlgorithms == [number |-> 25, mention |-> {}]

Templates == [cipher |-> {}, skcipher |-> SkcipherTemplates, aead |-> AeadTemplates,
              hash |-> HashTemplates, rng |-> {}]
Algorithms == [cipher |-> CipherAlgorithms, skcipher |-> SkcipherAlgorithms,
               aead |-> AeadAlgorithms, hash |-> HashAlgorithms, rng |-> RngAlgorithms]

(* A name is a sequence of tokens: a template, a complete algorithm (the name   *)
(* of its type in capitals) or punctuation.                                    *)
Complete == [cipher |-> "CIPHER", skcipher |-> "SKCIPHER", aead |-> "AEAD",
             hash |-> "HASH", rng |-> "RNG"]

(* What generateAlgImpl still has to write, the next item first: punctuation    *)
(* or a type to expand.  Entering a template puts its arguments there.         *)
Arguments(args) ==
    <<"(">> \o [i \in 1 .. 2 * Len(args) - 1 |-> IF i % 2 = 1 THEN args[(i + 1) \div 2] ELSE ","]
            \o <<")">>

(* generateAlg picks an entry of the table, generateAlgImpl writes its name.    *)
generateAlg(type) == Templates[type] \cup {algDesc(Complete[type], <<>>)}
\* A mutant: the arguments are written after all that is pending.
ArgumentsLast(todo, alg) ==
    Tail(todo) \o (IF alg.args = <<>> THEN <<>> ELSE Arguments(alg.args))
generateAlgImpl(todo, alg) ==
    (IF alg.args = <<>> THEN <<>> ELSE Arguments(alg.args)) \o Tail(todo)

(* fixedSizeData: zeros are appended, then the text is cut at the size.         *)
fixedSizeData(text, size) ==
    [i \in 1 .. size |-> IF i <= Len(text) THEN text[i] ELSE "NUL"]
=============================================================================
