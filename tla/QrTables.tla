------------------------------ MODULE QrTables ------------------------------
(***************************************************************************)
(* The tables of qrcode/, by version 1 to 40 and level 1 to 4 (L, M, Q,    *)
(* H).  Bit strings are the numbers they write.                            *)
(***************************************************************************)
EXTENDS Integers

(* Total codewords, then the bytes a symbol takes by level.                *)
g_codewords == <<
  <<26,17,14,11,7>>, <<44,32,26,20,14>>, <<70,53,42,32,24>>,
  <<100,78,62,46,34>>, <<134,106,84,60,44>>, <<172,134,106,74,58>>,
  <<196,154,122,86,64>>, <<242,192,152,108,84>>, <<292,230,180,130,98>>,
  <<346,271,213,151,119>>, <<404,321,251,177,137>>,
  <<466,367,287,203,155>>, <<532,425,331,241,177>>,
  <<581,458,362,258,194>>, <<655,520,412,292,220>>,
  <<733,586,450,322,250>>, <<815,644,504,364,280>>,
  <<901,718,560,394,310>>, <<991,792,624,442,338>>,
  <<1085,858,666,482,382>>, <<1156,929,711,509,403>>,
  <<1258,1003,779,565,439>>, <<1364,1091,857,611,461>>,
  <<1474,1171,911,661,511>>, <<1588,1273,997,715,535>>,
  <<1706,1367,1059,751,593>>, <<1828,1465,1125,805,625>>,
  <<1921,1528,1190,868,658>>, <<2051,1628,1264,908,698>>,
  <<2185,1732,1370,982,742>>, <<2323,1840,1452,1030,790>>,
  <<2465,1952,1538,1112,842>>, <<2611,2068,1628,1168,898>>,
  <<2761,2188,1722,1228,958>>, <<2876,2303,1809,1283,983>>,
  <<3034,2431,1911,1351,1051>>, <<3196,2563,1989,1423,1093>>,
  <<3362,2699,2099,1499,1399>>, <<3532,2809,2213,1579,1219>>,
  <<3706,2953,2331,1663,1273>>>>

(* Data codewords, codewords for correction per block, and the blocks and  *)
(* their data codewords in groups 1 and 2.                                 *)
g_L == <<
  <<19,7,1,19,0,0>>, <<34,10,1,34,0,0>>, <<55,15,1,55,0,0>>,
  <<80,20,1,80,0,0>>, <<108,26,1,108,0,0>>, <<136,18,2,68,0,0>>,
  <<156,20,2,78,0,0>>, <<194,24,2,97,0,0>>, <<232,30,2,116,0,0>>,
  <<274,18,2,68,2,69>>, <<324,20,4,81,0,0>>, <<370,24,2,92,2,93>>,
  <<428,26,4,107,0,0>>, <<461,30,3,115,1,116>>, <<523,22,5,87,1,88>>,
  <<589,24,5,98,1,99>>, <<647,28,1,107,5,108>>, <<721,30,5,120,1,121>>,
  <<795,28,3,113,4,114>>, <<861,28,3,107,5,108>>, <<932,28,4,116,4,117>>,
  <<1006,28,2,111,7,112>>, <<1094,30,4,121,5,122>>,
  <<1174,30,6,117,4,118>>, <<1276,26,8,106,4,107>>,
  <<1370,28,10,114,2,115>>, <<1468,30,8,122,4,123>>,
  <<1531,30,3,117,10,118>>, <<1631,30,7,116,7,117>>,
  <<1735,30,5,115,10,116>>, <<1843,30,13,115,3,116>>,
  <<1955,30,17,115,0,0>>, <<2071,30,17,115,1,116>>,
  <<2191,30,13,115,6,116>>, <<2306,30,12,121,7,122>>,
  <<2434,30,6,121,14,122>>, <<2566,30,17,122,4,123>>,
  <<2702,30,4,122,18,123>>, <<2812,30,20,117,4,118>>,
  <<2956,30,19,118,6,119>>>>

g_M == <<
  <<16,10,1,16,0,0>>, <<28,16,1,28,0,0>>, <<44,26,1,44,0,0>>,
  <<64,18,2,32,0,0>>, <<86,24,2,43,0,0>>, <<108,16,4,27,0,0>>,
  <<124,18,4,31,0,0>>, <<154,22,2,38,2,39>>, <<182,22,3,36,2,37>>,
  <<216,26,4,43,1,44>>, <<254,30,1,50,4,51>>, <<290,22,6,36,2,37>>,
  <<334,22,8,37,1,38>>, <<365,24,4,40,5,41>>, <<415,24,5,41,5,42>>,
  <<453,28,7,45,3,46>>, <<507,28,10,46,1,47>>, <<563,26,9,43,4,44>>,
  <<627,26,3,44,11,45>>, <<669,26,3,41,13,42>>, <<714,26,17,42,0,0>>,
  <<782,28,17,46,0,0>>, <<860,28,4,47,14,48>>, <<914,28,6,45,14,46>>,
  <<1000,28,8,47,13,48>>, <<1062,28,19,46,4,47>>, <<1128,28,22,45,3,46>>,
  <<1193,28,3,45,23,46>>, <<1267,28,21,45,7,46>>, <<1373,28,19,47,10,48>>,
  <<1455,28,2,46,29,47>>, <<1541,28,10,46,23,47>>, <<1631,28,14,46,21,47>>,
  <<1725,28,14,46,23,47>>, <<1812,28,12,47,26,48>>, <<1914,28,6,47,34,48>>,
  <<1992,28,29,46,14,47>>, <<2102,28,13,46,32,47>>, <<2216,28,40,47,7,48>>,
  <<2334,28,18,47,31,48>>>>

g_Q == <<
  <<13,13,1,13,0,0>>, <<22,22,1,22,0,0>>, <<34,18,2,17,0,0>>,
  <<48,26,2,24,0,0>>, <<62,18,2,15,2,16>>, <<76,24,4,19,0,0>>,
  <<88,18,2,14,4,15>>, <<110,22,4,18,2,19>>, <<132,20,4,16,4,17>>,
  <<154,24,6,19,2,20>>, <<180,28,4,22,4,23>>, <<206,26,4,20,6,21>>,
  <<244,24,8,20,4,21>>, <<261,20,11,16,5,17>>, <<295,30,5,24,7,25>>,
  <<325,24,15,19,2,20>>, <<367,28,1,22,15,23>>, <<397,28,17,22,1,23>>,
  <<445,26,17,21,4,22>>, <<485,30,15,24,5,25>>, <<512,28,17,22,6,23>>,
  <<568,30,7,24,16,25>>, <<614,30,11,24,14,25>>, <<664,30,11,24,16,25>>,
  <<718,30,7,24,22,25>>, <<754,28,28,22,6,23>>, <<808,30,8,23,26,24>>,
  <<871,30,4,24,31,25>>, <<911,30,1,23,37,24>>, <<985,30,15,24,25,25>>,
  <<1033,30,42,24,1,25>>, <<1115,30,10,24,35,25>>, <<1171,30,29,24,19,25>>,
  <<1231,30,44,24,7,25>>, <<1286,30,39,24,14,25>>, <<1354,30,46,24,10,25>>,
  <<1426,30,49,24,10,25>>, <<1502,30,48,24,14,25>>,
  <<1582,30,43,24,22,25>>, <<1666,30,34,24,34,25>>>>

g_H == <<
  <<9,17,1,9,0,0>>, <<16,28,1,16,0,0>>, <<26,22,2,13,0,0>>,
  <<36,16,4,9,0,0>>, <<46,22,2,11,2,12>>, <<60,28,4,15,0,0>>,
  <<66,26,4,13,1,14>>, <<86,26,4,14,2,15>>, <<100,24,4,12,4,13>>,
  <<122,28,6,15,2,16>>, <<140,24,3,12,8,13>>, <<158,28,7,14,4,15>>,
  <<180,22,12,11,4,12>>, <<197,24,11,12,5,13>>, <<223,24,11,12,7,13>>,
  <<253,30,3,15,13,16>>, <<283,28,2,14,17,15>>, <<313,28,2,14,19,15>>,
  <<341,26,9,13,16,14>>, <<385,28,15,15,10,16>>, <<406,30,19,16,6,17>>,
  <<442,24,34,13,0,0>>, <<464,30,16,15,14,16>>, <<514,30,30,16,2,17>>,
  <<538,30,22,15,13,16>>, <<596,30,33,16,4,17>>, <<628,30,12,15,28,16>>,
  <<661,30,11,15,31,16>>, <<701,30,19,15,26,16>>, <<745,30,23,15,25,16>>,
  <<793,30,23,15,28,16>>, <<845,30,19,15,35,16>>, <<901,30,11,15,46,16>>,
  <<961,30,59,16,1,17>>, <<986,30,22,15,41,16>>, <<1054,30,2,15,64,16>>,
  <<1096,30,24,15,46,16>>, <<1142,30,42,15,32,16>>,
  <<1222,30,10,15,67,16>>, <<1276,30,20,15,61,16>>>>

g_rem == <<
  0, 7, 7, 7, 7, 7, 0, 0, 0, 0, 0, 0, 0, 3, 3, 3, 3, 3, 3, 3, 4, 4, 4, 4,
  4, 4, 4, 3, 3, 3, 3, 3, 3, 3, 0, 0, 0, 0, 0, 0>>

(* Number of alignment patterns and their coordinates.                     *)
g_alignment == <<
  <<0>>, <<1,6,18>>, <<1,6,22>>, <<1,6,26>>, <<1,6,30>>, <<1,6,34>>,
  <<6,6,22,38>>, <<6,6,24,42>>, <<6,6,26,46>>, <<6,6,28,50>>,
  <<6,6,30,54>>, <<6,6,32,58>>, <<6,6,34,62>>, <<13,6,26,46,66>>,
  <<13,6,26,48,70>>, <<13,6,26,50,74>>, <<13,6,30,54,78>>,
  <<13,6,30,56,82>>, <<13,6,30,58,86>>, <<13,6,34,62,90>>,
  <<22,6,28,50,72,94>>, <<22,6,26,50,74,98>>, <<22,6,30,54,78,102>>,
  <<22,6,28,54,80,106>>, <<22,6,32,58,84,110>>, <<22,6,30,58,86,114>>,
  <<22,6,34,62,90,118>>, <<33,6,26,50,74,98,122>>,
  <<33,6,30,54,78,102,126>>, <<33,6,26,52,78,104,130>>,
  <<33,6,30,56,82,108,134>>, <<33,6,34,60,86,112,138>>,
  <<33,6,30,58,86,114,142>>, <<33,6,34,62,90,118,146>>,
  <<46,6,30,54,78,102,126,150>>, <<46,6,24,50,76,102,128,154>>,
  <<46,6,28,54,80,106,132,158>>, <<46,6,32,58,84,110,136,162>>,
  <<46,6,26,54,82,110,138,166>>, <<46,6,30,58,86,114,142,170>>>>

(* By level and mask 0 to 7.                                               *)
g_fStr == <<
  <<30660, 29427, 32170, 30877, 26159, 25368, 27713, 26998>>,
  <<21522, 20773, 24188, 23371, 17913, 16590, 20375, 19104>>,
  <<13663, 12392, 16177, 14854, 9396, 8579, 11994, 11245>>,
  <<5769, 5054, 7399, 6608, 1890, 597, 3340, 2107>>>>

(* By version, from 7.                                                     *)
g_vStr == <<
  31892, 34236, 39577, 42195, 48118, 51042, 55367, 58893, 63784, 68472,
  70749, 76311, 79154, 84390, 87683, 92361, 96236, 102084, 102881, 110507,
  110734, 117786, 119615, 126325, 127568, 133589, 136944, 141498, 145311,
  150283, 152622, 158308, 161089, 167017>>
=============================================================================
