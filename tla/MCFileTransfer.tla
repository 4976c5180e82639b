---------------------------- MODULE MCFileTransfer ----------------------------
(* FileTransfer of a file of five bytes in chunks of two or three. *)
EXTENDS FileTransfer

FiveBytes == <<11, 12, 13, 14, 15>>
TwoBytes == <<21, 22>>

==============================================================================
