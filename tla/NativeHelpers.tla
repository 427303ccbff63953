--------------------------- MODULE NativeHelpers ----------------------------
(* The conversions that the native methods share (rugged.c,                 *)
(* rugged_object.c, rugged_signature.c) and the methods of those files, in  *)
(* the vocabulary of Steps.                                                 *)
EXTENDS Steps

\* An array of strings of Ruby becomes one of C; a string in it may still turn
\* out to hold a zero byte when the array is allocated.
StrarrayFromAry(r) == Convert \o Optional(Allocate(r) \o Convert)

StrarrayDispose(r) == Release(r)

\* The callbacks of a checkout are wrapped for libgit2, and its paths are copied.
CheckoutOptions ==
    Convert \o Optional(Allocate("progress")) \o Optional(Allocate("notify"))
        \o Convert \o StrarrayFromAry("paths")

\* What names an object is an object, an id, or a revision to be parsed.
OidGet == Convert \o Optional(Acquire("named") \o Use("named") \o Release("named"))

ObjectGet(r) == Convert \o Acquire(r) \o Check

\* With a type that is not any: the object may be of another one.
ObjectOfType(r) == ObjectGet(r) \o Convert

SignatureGet(r) == Convert \o Acquire(r) \o Check

SignatureFromBuffer == Convert \o Acquire("signature") \o Check \o Use("signature") \o Release("signature")

PrettifyMessage ==
    Convert \o Acquire("message") \o Use("message") \o Release("message") \o Check

\* The ids come from an object of the program that responds to each.
MinimizeOid ==
    Convert \o Allocate("shortener") \o Yield \o Convert \o Call
        \o Release("shortener") \o Check \o Optional(Loop(Yield))

ObjectLookup == Convert \o Call \o Check \o Acquire("object") \o Check \o Wrap("object")

\* An object that was given as a string is looked up in the middle of a method.
RevParse == Convert \o Acquire("object") \o Check \o Wrap("object")

RevParseOid ==
    Convert \o Acquire("object") \o Check \o Use("object") \o Release("object")

HelperMethods == [
    signature_from_buffer |-> SignatureFromBuffer,
    prettify_message |-> PrettifyMessage,
    minimize_oid |-> MinimizeOid,
    object_lookup |-> ObjectLookup,
    rev_parse |-> RevParse,
    rev_parse_oid |-> RevParseOid]

=============================================================================
