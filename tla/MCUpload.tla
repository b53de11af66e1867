------------------------------ MODULE MCUpload ------------------------------
(* Images shorter than a buffer, of whole buffers and with a rest, a line   *)
(* with the key, one that shares a part of it and one with a newline.       *)
EXTENDS Sequences

MCKey == <<"g", "o">>
MCLines == {<<"g", "o", "nl">>, <<"g">>}

CONSTANTS
  Sizes, Buffer, Polls, Ends, BusyPolls, Key, Lines, Readable, Wants, MaxUses

VARIABLES
  size, phase, func, state, key, strobes, left, data, ack, count, busy, flag,
  result, amiga, todo, want, uses, steady, got, mixed, cut

Up == INSTANCE Upload

ASSUME UploadsAssumption == Up!UploadAssumption

UploadSpec == Up!LiveSpec

(* Upload: what was read is the image, and SEND_OK means all of it was.     *)
OkMeansRead == Up!OkMeansRead

(* Upload: a steady reader gets the image.                                  *)
ReaderGetsImage == Up!ReaderGetsImage
==============================================================================
