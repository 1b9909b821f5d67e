CONSTANTS
  u1 = u1
  u2 = u2
  u3 = u3
  Zero = Zero
  Users <- MCUsers
  TokenIds <- MCTokenIds
SYMMETRY MCSymmetry
SPECIFICATION MintBurnSpec



PROPERTY MintOfExistingTokenFails
