--------------------------- MODULE MCCredentials ---------------------------
(***************************************************************************)
(* Two lists: the one the program comes with, and one with every character *)
(* that has a key, a field that ends with its block and a credential of    *)
(* 256 bytes.  The key is that of PIN 0000.                                *)
(***************************************************************************)
EXTENDS Credentials

mcCipherKey == [i \in 1 .. 16 |-> 48]
mcSize == 512

Filled(bytes) == bytes \o [i \in 1 .. mcSize - Len(bytes) |-> 0]

(* crd.c:24                                                                *)
DefaultBytes ==
  <<
    87, 101, 108, 99, 111, 109, 101, 0, 58, 0, 121, 98, 111, 200, 15,
    235, 22, 33, 149, 221, 15, 66, 229, 51, 159, 183, 141, 67, 180, 170,
    183, 172, 240, 227, 196, 113, 205, 225, 162, 79, 21, 51, 101, 65,
    29, 238, 172, 243, 92, 0, 209, 143, 98, 40, 121, 97, 249, 186, 65,
    98, 111, 117, 116, 0, 114, 0, 22, 220, 64, 209, 228, 54, 77, 167,
    138, 61, 92, 25, 148, 225, 136, 223, 191, 104, 1, 172, 70, 140, 75,
    157, 1, 85, 36, 7, 133, 128, 160, 98, 57, 171, 3, 200, 132, 100,
    250, 241, 163, 183, 116, 123, 163, 243, 5, 203, 82, 111, 117, 116,
    101, 114, 32, 68, 101, 102, 97, 117, 108, 116, 0, 0, 0, 8, 169, 67,
    105, 210, 97, 84, 224, 108, 24, 213, 114, 75, 13, 230, 98, 235, 116,
    187, 67, 60, 22, 90, 4, 208, 135, 208, 53, 54, 102, 202, 114, 0, 0,
    0, 0, 0>>

(* https://github.com/jim17/memtype, http://www.area0x33.com/blog/, admin  *)
Github ==
  <<
    104, 116, 116, 112, 115, 58, 47, 47, 103, 105, 116, 104, 117, 98,
    46, 99, 111, 109, 47, 106, 105, 109, 49, 55, 47, 109, 101, 109,
    116, 121, 112, 101>>
Area ==
  <<
    104, 116, 116, 112, 58, 47, 47, 119, 119, 119, 46, 97, 114, 101,
    97, 48, 120, 51, 51, 46, 99, 111, 109, 47, 98, 108, 111, 103, 47>>
Admin == <<97, 100, 109, 105, 110>>
DefaultPlain ==
  (0 :> <<Github, <<9>>, <<>>, <<10>>>>) @@ (58 :> <<Area, <<9>>, <<>>, <<10>>>>)
  @@ (114 :> <<Admin, <<9>>, Admin, <<10>>>>)

Every == <<[i \in 1 .. 95 |-> 31 + i], <<>>, [i \in 1 .. 14 |-> 65], <<10>>>>
Long == <<[i \in 1 .. 120 |-> 97], <<>>, [i \in 1 .. 132 |-> 98], <<>>>>
OtherPlain == (0 :> Every) @@ (132 :> Long)
OtherBytes ==
  <<
    65, 0, 132, 0, 213, 60, 80, 207, 224, 98, 71, 47, 38, 56, 36, 70, 2,
    174, 9, 84, 193, 157, 199, 180, 16, 12, 171, 134, 234, 11, 80, 78,
    10, 48, 67, 133, 179, 78, 29, 73, 96, 235, 51, 121, 198, 212, 129,
    147, 38, 71, 102, 86, 73, 81, 93, 86, 42, 248, 113, 250, 104, 105,
    211, 70, 126, 49, 92, 207, 21, 253, 189, 60, 202, 162, 234, 70, 249,
    151, 209, 24, 149, 153, 193, 167, 32, 221, 203, 77, 40, 26, 250, 75,
    83, 32, 118, 13, 109, 19, 230, 174, 220, 147, 199, 226, 243, 81, 207,
    250, 238, 66, 13, 206, 182, 67, 57, 182, 191, 176, 43, 72, 144, 87,
    253, 195, 32, 245, 235, 211, 221, 168, 109, 251, 66, 67, 0, 0, 0, 58,
    104, 129, 186, 155, 198, 221, 102, 39, 236, 32, 11, 228, 123, 138,
    104, 58, 104, 129, 186, 155, 198, 221, 102, 39, 236, 32, 11, 228,
    123, 138, 104, 58, 104, 129, 186, 155, 198, 221, 102, 39, 236, 32,
    11, 228, 123, 138, 104, 58, 104, 129, 186, 155, 198, 221, 102, 39,
    236, 32, 11, 228, 123, 138, 104, 58, 104, 129, 186, 155, 198, 221,
    102, 39, 236, 32, 11, 228, 123, 138, 104, 58, 104, 129, 186, 155,
    198, 221, 102, 39, 236, 32, 11, 228, 123, 138, 104, 58, 104, 129,
    186, 155, 198, 221, 102, 39, 236, 32, 11, 228, 123, 138, 104, 57,
    106, 233, 167, 93, 29, 203, 248, 156, 59, 253, 38, 80, 19, 251, 209,
    32, 252, 16, 146, 21, 203, 147, 80, 212, 27, 188, 70, 181, 241, 13,
    185, 32, 252, 16, 146, 21, 203, 147, 80, 212, 27, 188, 70, 181, 241,
    13, 185, 32, 252, 16, 146, 21, 203, 147, 80, 212, 27, 188, 70, 181,
    241, 13, 185, 32, 252, 16, 146, 21, 203, 147, 80, 212, 27, 188, 70,
    181, 241, 13, 185, 32, 252, 16, 146, 21, 203, 147, 80, 212, 27, 188,
    70, 181, 241, 13, 185, 32, 252, 16, 146, 21, 203, 147, 80, 212, 27,
    188, 70, 181, 241, 13, 185, 32, 252, 16, 146, 21, 203, 147, 80, 212,
    27, 188, 70, 181, 241, 13, 185, 89, 254, 208, 103, 130, 44, 67, 41,
    98, 79, 39, 59, 250, 125, 107, 75>>

mcLists == <<[bytes |-> Filled(DefaultBytes), plain |-> DefaultPlain],
             [bytes |-> Filled(OtherBytes), plain |-> OtherPlain]>>

(* The hash of PIN 0000 in usi.c:13-15.                                    *)
ASSUME LockHashAssumption ==
  N!noekeon_encrypt(mcCipherKey, mcCipherKey)
  = <<212, 79, 178, 122, 88, 180, 39, 74, 33, 230, 143, 57, 105, 116, 35, 84>>
=============================================================================
