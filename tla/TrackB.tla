----------------------------- MODULE TrackB -----------------------------
(***************************************************************************)
(* The table that Track::init_trackb of user/src/track_data.cpp fills in.  *)
(* Each row is one entry of the array track, in the order of the array.    *)
(***************************************************************************)
EXTENDS TrackTable

\* A1 to A16.
BankA ==
  <<
  <<"S", 0, 1, <<102, 0, 103, 218>>>>, <<"S", 0, 0, <<132, 0, 133, 500>>>>,
  <<"S", 0, 3, <<107, 0, 106, 62>>>>, <<"S", 0, 2, <<30, 0, 31, 440>>>>,
  <<"S", 0, 5, <<84, 0, 85, 216>>>>, <<"S", 0, 4, <<24, 0, 25, 649>>>>,
  <<"S", 0, 7, <<26, 0, 27, 473>>>>, <<"S", 0, 6, <<82, 1, 83, 211>>>>,
  <<"S", 0, 9, <<22, 0, 23, 289>>>>, <<"S", 0, 8, <<80, 1, 81, 210>>>>,
  <<"S", 0, 11, <<80, 0, 81, 265>>>>, <<"S", 0, 10, <<14, 0, 15, 774>>>>,
  <<"S", 0, 13, <<86, 1, 87, 215>>>>, <<"S", 0, 12, <<130, 0, 131, 320>>>>,
  <<"S", 0, 15, <<11, 0, 10, 774>>>>, <<"S", 0, 14, <<86, 0, 87, 260>>>> >>

\* B1 to B16.
BankB ==
  <<
  <<"S", 0, 17, <<60, 0, 61, 398>>>>, <<"S", 0, 16, <<110, 0, 111, 225>>>>,
  <<"S", 0, 19, <<32, 0, 33, 230>>>>, <<"S", 0, 18, <<110, 1, 111, 220>>>>,
  <<"S", 0, 21, <<51, 0, 50, 405>>>>, <<"S", 0, 20, <<104, 0, 105, 214>>>>,
  <<"S", 0, 23, <<8, 0, 9, 289>>>>, <<"S", 0, 22, <<134, 0, 135, 60>>>>,
  <<"S", 0, 25, <<5, 0, 4, 649>>>>, <<"S", 0, 24, <<136, 0, 137, 70>>>>,
  <<"S", 0, 27, <<6, 0, 7, 473>>>>, <<"S", 0, 26, <<138, 0, 139, 70>>>>,
  <<"S", 0, 29, <<118, 1, 119, 224>>>>, <<"S", 0, 28, <<62, 0, 63, 202>>>>,
  <<"S", 0, 31, <<3, 0, 2, 440>>>>, <<"S", 0, 30, <<109, 0, 108, 70>>>> >>

\* C1 to C16.
BankC ==
  <<
  <<"S", 0, 33, <<18, 0, 19, 230>>>>, <<"S", 0, 32, <<116, 1, 117, 228>>>>,
  <<"S", 0, 35, <<128, 0, 129, 410>>>>, <<"S", 0, 34, <<88, 0, 89, 226>>>>,
  <<"S", 0, 37, <<91, 0, 90, 79>>>>, <<"S", 0, 36, <<108, 0, 109, 411>>>>,
  <<"S", 0, 39, <<114, 0, 115, 215>>>>, <<"S", 0, 38, <<85, 0, 84, 145>>>>,
  <<"S", 0, 41, <<108, 1, 109, 305>>>>, <<"S", 0, 40, <<111, 0, 110, 146>>>>,
  <<"S", 0, 43, <<105, 0, 104, 140>>>>, <<"S", 0, 42, <<106, 1, 107, 314>>>>,
  <<"S", 0, 45, <<71, 0, 70, 785>>>>, <<"S", 0, 44, <<101, 0, 100, 60>>>>,
  <<"S", 0, 47, <<58, 0, 59, 405>>>>, <<"S", 0, 46, <<90, 0, 91, 223>>>> >>

\* D1 to D16.
BankD ==
  <<
  <<"S", 0, 49, <<120, 1, 121, 227>>>>, <<"S", 0, 48, <<66, 0, 67, 200>>>>,
  <<"S", 0, 51, <<98, 0, 99, 223>>>>, <<"S", 0, 50, <<20, 0, 21, 405>>>>,
  <<"S", 0, 53, <<68, 0, 69, 275>>>>, <<"S", 0, 52, <<96, 1, 97, 213>>>>,
  <<"S", 0, 55, <<96, 0, 97, 290>>>>, <<"S", 0, 54, <<70, 0, 71, 375>>>>,
  <<"S", 0, 57, <<74, 0, 75, 284>>>>, <<"S", 0, 56, <<94, 0, 95, 291>>>>,
  <<"S", 0, 59, <<46, 0, 47, 405>>>>, <<"S", 0, 58, <<92, 0, 93, 220>>>>,
  <<"S", 0, 61, <<16, 0, 17, 398>>>>, <<"S", 0, 60, <<112, 0, 113, 225>>>>,
  <<"S", 0, 63, <<29, 0, 28, 202>>>>, <<"S", 0, 62, <<112, 1, 113, 230>>>> >>

\* E1 to E16.
BankE ==
  <<
  <<"S", 0, 65, <<122, 1, 123, 222>>>>, <<"S", 0, 64, <<79, 0, 78, 203>>>>,
  <<"S", 0, 67, <<49, 0, 48, 200>>>>, <<"S", 0, 66, <<98, 1, 99, 220>>>>,
  <<"S", 0, 69, <<52, 0, 53, 275>>>>, <<"S", 0, 68, <<99, 0, 98, 74>>>>,
  <<"S", 0, 71, <<55, 0, 54, 375>>>>, <<"S", 0, 70, <<44, 0, 45, 785>>>>,
  <<"S", 0, 73, <<94, 1, 95, 215>>>>, <<"S", 0, 72, <<77, 0, 76, 275>>>>,
  <<"S", 0, 75, <<56, 0, 57, 284>>>>, <<"S", 0, 74, <<93, 0, 92, 65>>>>,
  <<"S", 0, 77, <<113, 0, 112, 62>>>>, <<"S", 0, 76, <<73, 0, 72, 275>>>>,
  <<"S", 0, 79, <<104, 1, 105, 230>>>>, <<"S", 0, 78, <<65, 0, 64, 203>>>> >>

\* BR1 and MR1 to BR7 and MR7.
Turnouts1 ==
  <<
  <<"B", 1, 81, <<10, 0, 11, 265>>, <<9, 0, 8, 210>>>>, <<"M", 1, 80, <<82, 0, 83, 191>>>>,
  <<"B", 2, 83, <<81, 0, 80, 191>>, <<7, 0, 6, 211>>>>, <<"M", 2, 82, <<84, 1, 85, 182>>>>,
  <<"B", 3, 85, <<4, 0, 5, 216>>, <<83, 0, 82, 182>>>>, <<"M", 3, 84, <<39, 0, 38, 145>>>>,
  <<"B", 4, 87, <<15, 0, 14, 260>>, <<12, 0, 13, 215>>>>,
  <<"M", 4, 86, <<102, 1, 103, 185>>>>,
  <<"B", 5, 89, <<35, 0, 34, 226>>, <<92, 1, 93, 334>>>>,
  <<"M", 5, 88, <<115, 0, 114, 187>>>>,
  <<"B", 6, 91, <<47, 0, 46, 223>>, <<114, 1, 115, 338>>>>, <<"M", 6, 90, <<36, 0, 37, 79>>>>,
  <<"B", 7, 93, <<59, 0, 58, 220>>, <<88, 1, 89, 334>>>>, <<"M", 7, 92, <<75, 0, 74, 65>>>> >>

\* BR8 and MR8 to BR14 and MR14.
Turnouts2 ==
  <<
  <<"B", 8, 95, <<57, 0, 56, 291>>, <<72, 0, 73, 215>>>>, <<"M", 8, 94, <<97, 0, 96, 193>>>>,
  <<"B", 9, 97, <<54, 0, 55, 290>>, <<53, 0, 52, 213>>>>, <<"M", 9, 96, <<95, 0, 94, 193>>>>,
  <<"B", 10, 99, <<50, 0, 51, 223>>, <<67, 0, 66, 220>>>>, <<"M", 10, 98, <<69, 0, 68, 74>>>>,
  <<"B", 11, 101, <<103, 0, 102, 190>>, <<106, 0, 107, 445>>>>,
  <<"M", 11, 100, <<45, 0, 44, 60>>>>, <<"B", 12, 103, <<0, 0, 1, 218>>, <<87, 0, 86, 185>>>>,
  <<"M", 12, 102, <<100, 0, 101, 190>>>>,
  <<"B", 13, 105, <<21, 0, 20, 214>>, <<78, 0, 79, 230>>>>,
  <<"M", 13, 104, <<42, 0, 43, 140>>>>,
  <<"B", 14, 107, <<100, 1, 101, 445>>, <<43, 0, 42, 314>>>>,
  <<"M", 14, 106, <<2, 0, 3, 62>>>> >>

\* BR15 and MR15 to BR18 and MR18, BR153 and MR153 to BR156 and MR156.
Turnouts3 ==
  <<
  <<"B", 15, 109, <<37, 0, 36, 411>>, <<40, 0, 41, 305>>>>,
  <<"M", 15, 108, <<31, 0, 30, 70>>>>,
  <<"B", 16, 111, <<17, 0, 16, 225>>, <<19, 0, 18, 220>>>>,
  <<"M", 16, 110, <<41, 0, 40, 146>>>>,
  <<"B", 17, 113, <<61, 0, 60, 225>>, <<63, 0, 62, 230>>>>,
  <<"M", 17, 112, <<76, 0, 77, 62>>>>,
  <<"B", 18, 115, <<38, 0, 39, 215>>, <<90, 1, 91, 338>>>>,
  <<"M", 18, 114, <<89, 0, 88, 187>>>>,
  <<"B", 153, 117, <<124, 0, 125, 230>>, <<33, 0, 32, 228>>>>,
  <<"M", 153, 116, <<118, 0, 119, 24>>>>,
  <<"B", 154, 119, <<117, 0, 116, 24>>, <<28, 0, 29, 224>>>>,
  <<"M", 154, 118, <<123, 0, 122, 32>>>>,
  <<"B", 155, 121, <<126, 0, 127, 247>>, <<48, 0, 49, 227>>>>,
  <<"M", 155, 120, <<122, 0, 123, 24>>>>,
  <<"B", 156, 123, <<121, 0, 120, 24>>, <<64, 0, 65, 222>>>>,
  <<"M", 156, 122, <<119, 0, 118, 32>>>> >>

\* The ends of the track, EN and EX.
Ends ==
  <<
  <<"N", 1, 125, <<116, 0, 117, 230>>>>, <<"X", 1, 124>>,
  <<"N", 2, 127, <<120, 0, 121, 247>>>>, <<"X", 2, 126>>, <<"N", 3, 129, <<34, 0, 35, 410>>>>,
  <<"X", 3, 128>>, <<"N", 4, 131, <<13, 0, 12, 320>>>>, <<"X", 4, 130>>,
  <<"N", 5, 133, <<1, 0, 0, 500>>>>, <<"X", 5, 132>>, <<"N", 7, 135, <<23, 0, 22, 60>>>>,
  <<"X", 7, 134>>, <<"N", 9, 137, <<25, 0, 24, 70>>>>, <<"X", 9, 136>>,
  <<"N", 10, 139, <<27, 0, 26, 70>>>>, <<"X", 10, 138>> >>

TrackBNodes ==
  Numbered(BankA \o BankB \o BankC \o BankD \o BankE
             \o Turnouts1 \o Turnouts2 \o Turnouts3 \o Ends)
=============================================================================
