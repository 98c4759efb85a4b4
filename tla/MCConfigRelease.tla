-------------------------- MODULE MCConfigRelease ---------------------------
(* Two file contents; one or two concurrent request goroutines.           *)
EXTENDS ConfigRelease, TLC

CONSTANTS a, b, c1, c2

MCContents == {a, b}

\* a is the stored ciphertext of the plaintext b.
MCPlain == a :> b @@ b :> b

\* A group without a data key: nothing is decrypted.
MCPlainNone == a :> a @@ b :> b

=============================================================================
