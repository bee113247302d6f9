--------------------------- MODULE MC_NtlmsspCodec ---------------------------
(* NtlmsspCodec on small inputs: names of 0, 1, 4, 8 and 9 characters     *)
(* (the empty name, "FSRV", the longest that fits name[8] and one past     *)
(* it), and AUTHENTICATE headers with offsets inside and past the blob.    *)
EXTENDS NtlmsspCodec

MCNames == {<<>>, <<65>>, <<70, 83, 82, 86>>,
            <<75, 83, 77, 66, 68, 83, 82, 86>>,
            <<75, 83, 77, 66, 68, 83, 82>>}

\* Offsets and lengths the decoder follows: a blob of 64 or 160 bytes, a
\* response of 24 (NTLMv1) or 40 bytes, a 4-byte domain name.
MCAuthMsgs ==
    [blobLen : {60, 160}, sigOk : BOOLEAN,
     nt : [len : {24, 40}, off : {64, 150}],
     dom : [len : {4}, off : {104, 200}]]
=============================================================================
