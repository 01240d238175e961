SPECIFICATION LiveSpec
CONSTANTS
  Given = given
  c1 = c1
  c2 = c2
  c3 = c3
  c4 = c4
  Certs <- MCCerts
  MaxDisturb = 6
  None = None
INVARIANT CAFollows
PROPERTY SecretRenewed
