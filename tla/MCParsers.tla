----------------------------- MODULE MCParsers -----------------------------
(***************************************************************************)
(* Small instances of Http and Tuple.                                      *)
(***************************************************************************)
EXTENDS Parsers

(* The hash of a stored block, another hash, and a word that is no hash.   *)
Part == {"/", ":", "block", "stored", "unknown", "word"}

(* All urls of up to three parts, all of up to two behind /block/, and of  *)
(* three of those parts behind it that a pattern tells apart.              *)
MCUrls == {<<"/">> \o u : u \in BoundedSeq(Part, 2)}
             \cup {BLOCKS_PATTERN \o u : u \in BoundedSeq(Part, 2)}
             \cup {BLOCKS_PATTERN \o u : u \in BoundedSeq({"/", ":", "stored"}, 3)}

MCFirst == {Short(u) : u \in MCUrls} \cup {Long(BLOCKS_PATTERN)}

MCLater == {Short(<<"/", "block", "/", "stored">>)}

ASSUME RequestsAssumption == HttpAssumption

-----------------------------------------------------------------------------
(* The values hold bytes that are tags, and numbers differ from their      *)
(* reverse.                                                                *)
T == INSTANCE Tuple WITH open <- openTuples, buf <- bytes,
                         Scalar <- {}, Zeros <- {}, MaxElements <- 0, MaxDepth <- 0

Element(k, d) == [kind |-> k, data |-> d]

EveryKind == {Element(T!TUPLE_I32,    <<T!TUPLE_END, 0, 0, 1>>),
              Element(T!TUPLE_U32,    <<1, 0, 0, T!TUPLE_BINARY>>),
              Element(T!TUPLE_I64,    <<T!TUPLE_STRING, 0, 0, 0, 0, 0, 0, 1>>),
              Element(T!TUPLE_U64,    <<1, 0, 0, 0, 0, 0, 0, T!TUPLE_START>>),
              Element(T!TUPLE_F32,    <<T!TUPLE_I32, 1, 0, T!TUPLE_END>>),
              Element(T!TUPLE_F64,    <<0, 1, T!TUPLE_U64, 0, 0, 0, 0, 0>>),
              Element(T!TUPLE_BOOL,   <<1>>),
              Element(T!TUPLE_STRING, << >>),
              Element(T!TUPLE_STRING, <<T!TUPLE_END, T!TUPLE_STRING>>),
              Element(T!TUPLE_BINARY, << >>),
              Element(T!TUPLE_BINARY, <<T!TUPLE_START, 0, T!TUPLE_BINARY>>)}
=============================================================================
