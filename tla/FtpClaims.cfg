SPECIFICATION FtpSpec
CONSTANTS
  Longest = 2
  ClockWords = 6
INVARIANTS FtpTimesOut FtpLasts
