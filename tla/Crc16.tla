------------------------------- MODULE Crc16 --------------------------------
(* The CRC of mcu/src/arch/common/crc.c, bit by bit, with polynomial 0x1021. *)
EXTENDS Integers, Sequences

Word == 0 .. 65535
Bit(n, i) == (n \div 2 ^ i) % 2
Toggle(n, i) == IF Bit(n, i) = 1 THEN 0 - 2 ^ i ELSE 2 ^ i

(* One round of the loop: shift the CRC, and exclusive-or the polynomial.    *)
CrcBit(crc, bit) ==
  LET shifted == (2 * crc) % 65536
  IN IF Bit(crc, 15) = bit THEN shifted
     ELSE shifted + 1 + Toggle(shifted, 5) + Toggle(shifted, 12)

crc_xmodem_update(crc, data) ==
  LET Rounds[i \in 0 .. 8, c \in Word] ==
        IF i = 8 THEN c ELSE Rounds[i + 1, CrcBit(c, Bit(data, 7 - i))]
  IN Rounds[0, crc]

calc_eep_crc(bytes) ==
  LET From[i \in 0 .. Len(bytes), c \in Word] ==
        IF i = Len(bytes) THEN c
        ELSE From[i + 1, crc_xmodem_update(c, bytes[i + 1])]
  IN From[0, 0]

(* As the little-endian word that eeprom_write_word keeps.                   *)
CrcWord(bytes) ==
  LET crc == calc_eep_crc(bytes) IN <<crc % 256, crc \div 256>>

ASSUME XmodemCheckValue ==   \* the CRC's check value, of "123456789"
  calc_eep_crc(<<49, 50, 51, 52, 53, 54, 55, 56, 57>>) = 12739

=============================================================================
